---------------------------- MODULE Spec2Model ----------------------------
(***************************************************************************)
(* Food-cost application: ingredient catalog (App + IngredientManager),    *)
(* recipe editor (RecipeManager) and the cost calculation engine.          *)
(*                                                                         *)
(* JavaScript numbers are modelled as exact extended rationals <<n, d>>    *)
(* (d > 0 reduced fraction; <<0,0>> is NaN, <<1,0>> and <<-1,0>> are the   *)
(* infinities).  Strings that the code transforms (toLowerCase, trim) are  *)
(* sequences of one-character strings.  Identifiers (seed ids '1'..'6'     *)
(* and crypto.randomUUID() values) are only ever compared for equality and *)
(* are modelled as integers: seeds 1..6, the k-th generated UUID 100 + k.  *)
(***************************************************************************)
EXTENDS Integers, Sequences, FiniteSets, TLC

(***************************** numbers *************************************)

Abs(x) == IF x < 0 THEN -x ELSE x

RECURSIVE Gcd(_, _)
Gcd(a, b) == IF b = 0 THEN a ELSE Gcd(b, a % b)

Sign(x) == IF x > 0 THEN 1 ELSE IF x < 0 THEN -1 ELSE 0

\* the canonical representative of n/d (d may be any integer, 0 included)
Norm(n, d) ==
    IF d = 0 THEN <<Sign(n), 0>>
    ELSE LET g == Gcd(Abs(n), Abs(d))
         IN  IF d > 0 THEN <<n \div g, d \div g>> ELSE <<(-n) \div g, (-d) \div g>>

NaN == <<0, 0>>
Num(k) == <<k, 1>>
IsNaN(x) == x = NaN
IsFinite(x) == x[2] > 0

\* IEEE multiplication: NaN is absorbing, 0 * Infinity is NaN
NumMul(x, y) == Norm(x[1] * y[1], x[2] * y[2])

\* IEEE division x / y
NumDiv(x, y) ==
    IF IsNaN(x) \/ IsNaN(y) THEN NaN
    ELSE IF y[2] = 0 THEN (IF x[2] = 0 THEN NaN ELSE Num(0))
    ELSE IF y[1] = 0 THEN Norm(x[1], 0)
    ELSE IF x[2] = 0 THEN Norm(x[1] * Sign(y[1]), 0)
    ELSE Norm(x[1] * y[2], x[2] * y[1])

\* IEEE addition
NumAdd(x, y) ==
    IF IsNaN(x) \/ IsNaN(y) THEN NaN
    ELSE IF x[2] = 0 /\ y[2] = 0 THEN (IF x[1] = y[1] THEN x ELSE NaN)
    ELSE IF x[2] = 0 THEN x
    ELSE IF y[2] = 0 THEN y
    ELSE LET d == (x[2] \div Gcd(x[2], y[2])) * y[2]
         IN  Norm(x[1] * (d \div x[2]) + y[1] * (d \div y[2]), d)

\* x > 0 (false for NaN)
NumGt0(x) == x[1] > 0

\* x > y (false when either is NaN)
NumGt(x, y) ==
    /\ ~IsNaN(x) /\ ~IsNaN(y)
    /\ IF x[2] = 0 /\ y[2] = 0 THEN x[1] > y[1]
       ELSE IF x[2] = 0 THEN x[1] > 0
       ELSE IF y[2] = 0 THEN y[1] < 0
       ELSE LET d == (x[2] \div Gcd(x[2], y[2])) * y[2]
            IN  x[1] * (d \div x[2]) > y[1] * (d \div y[2])

\* JavaScript truthiness of a number: neither 0 nor NaN
NumTruthy(x) == x[1] # 0

(***************************** strings *************************************)

UpperChars == <<"A","B","C","D","E","F","G","H","I","J","K","L","M",
                "N","O","P","Q","R","S","T","U","V","W","X","Y","Z">>
LowerChars == <<"a","b","c","d","e","f","g","h","i","j","k","l","m",
                "n","o","p","q","r","s","t","u","v","w","x","y","z">>
WhiteSpace == {" ", "\t", "\n"}

LowerChar(c) == IF \E i \in 1..26 : UpperChars[i] = c
                THEN LowerChars[CHOOSE i \in 1..26 : UpperChars[i] = c]
                ELSE c

\* String.prototype.toLowerCase
toLowerCase(s) == [i \in 1..Len(s) |-> LowerChar(s[i])]

\* String.prototype.trim
trim(s) ==
    LET keep == {i \in 1..Len(s) : s[i] \notin WhiteSpace}
    IN  IF keep = {} THEN <<>>
        ELSE LET lo == CHOOSE i \in keep : \A j \in keep : i <= j
                 hi == CHOOSE i \in keep : \A j \in keep : j <= i
             IN  SubSeq(s, lo, hi)

(***************************** types.ts ************************************)

GRAM == "g"
KILOGRAM == "kg"
MILLILITER == "ml"
LITER == "l"
PIECE == "pc"
OUNCE == "oz"
POUND == "lb"
Unit == {GRAM, KILOGRAM, MILLILITER, LITER, PIECE, OUNCE, POUND}

(************************ IngredientManager helpers ************************)

calculateBaseCost_NoZeroGuard(unit, cost, quantity) ==
    LET baseFactor == IF unit = KILOGRAM \/ unit = LITER THEN 1000 ELSE 1
        totalBaseUnits == NumMul(quantity, Num(baseFactor))
    IN  NumDiv(cost, totalBaseUnits)

calculateBaseCost(unit, cost, quantity) ==
    LET baseFactor == IF unit = LITER THEN 1000
                      ELSE IF unit = KILOGRAM THEN 1000
                      ELSE 1
        totalBaseUnits == NumMul(quantity, Num(baseFactor))
    IN  IF NumGt0(totalBaseUnits) THEN NumDiv(cost, totalBaseUnits) ELSE Num(0)

parseUnit_NoLower(raw) ==
    LET lower == trim(raw)
    IN  IF lower \in {<<"k","g">>, <<"k","i","l","o","g","r","a","m">>, <<"k","g","s">>}
          THEN KILOGRAM
        ELSE IF lower \in {<<"g">>, <<"g","r","a","m">>, <<"g","m","s">>} THEN GRAM
        ELSE IF lower \in {<<"l">>, <<"l","i","t","e","r">>, <<"l","i","t","r","e">>}
          THEN LITER
        ELSE IF lower \in {<<"m","l">>, <<"m","i","l","l","i","l","i","t","e","r">>}
          THEN MILLILITER
        ELSE IF lower \in {<<"o","z">>, <<"o","u","n","c","e">>} THEN OUNCE
        ELSE IF lower \in {<<"l","b">>, <<"p","o","u","n","d">>, <<"l","b","s">>}
          THEN POUND
        ELSE PIECE

parseUnit(raw) ==
    LET lower == trim(toLowerCase(raw))
    IN  IF lower = <<"k","g">> \/ lower = <<"k","i","l","o","g","r","a","m">>
           \/ lower = <<"k","g","s">> THEN KILOGRAM
        ELSE IF lower = <<"g">> \/ lower = <<"g","r","a","m">>
           \/ lower = <<"g","m","s">> THEN GRAM
        ELSE IF lower = <<"l">> \/ lower = <<"l","i","t","e","r">>
           \/ lower = <<"l","i","t","r","e">> THEN LITER
        ELSE IF lower = <<"m","l">>
           \/ lower = <<"m","i","l","l","i","l","i","t","e","r">> THEN MILLILITER
        ELSE IF lower = <<"o","z">> \/ lower = <<"o","u","n","c","e">> THEN OUNCE
        ELSE IF lower = <<"l","b">> \/ lower = <<"p","o","u","n","d">>
           \/ lower = <<"l","b","s">> THEN POUND
        ELSE PIECE


(***************************** bounds **************************************)

\* number of distinct crypto.randomUUID() values in use at the same time
MaxUUID == 2
\* number of rows of an imported sheet
MaxRows == 3
\* number of ingredient lines the editor puts into one recipe
MaxLines == 1
\* number of saved recipes
MaxRecipes == 1
\* number of writes to the persisted collections in one behaviour
MaxOps == 2
\* the user edits, deletes and selects the first MaxSeedUsed seed ingredients
\* and any ingredient added later
MaxSeedUsed == 1
\* number of handleFileUpload calls suspended at the same time
MaxUploads == 1

(************************** values and literals ****************************)

\* the JavaScript value undefined in a slot of type string | undefined
Undefined == <<"undefined">>

\* dynamically typed values (sheet cells, fields of the generated draft)
Undef == [t |-> "undefined"]
Str(s) == [t |-> "string", v |-> s]
Number(x) == [t |-> "number", v |-> x]

Flour == <<"A","l","l","-","P","u","r","p","o","s","e"," ","F","l","o","u","r">>
Eggs == <<"E","g","g","s"," ","(","L","a","r","g","e"," ","T","r","a","y",")">>
Milk == <<"F","r","e","s","h"," ","M","i","l","k">>
Beef == <<"G","r","o","u","n","d"," ","B","e","e","f">>
Oil == <<"O","l","i","v","e"," ","O","i","l">>
Tomatoes == <<"T","o","m","a","t","o","e","s">>
Salt == <<"S","a","l","t">>
Soup == <<"S","o","u","p">>
NewRecipeName == <<"N","e","w"," ","R","e","c","i","p","e">>
Others == <<"O","t","h","e","r","s">>

INGREDIENT_CATEGORIES == <<
    <<"M","e","a","t">>,
    <<"S","e","a","f","o","o","d">>,
    <<"F","l","o","u","r","s">>,
    <<"D","a","i","r","y">>,
    <<"B","a","k","e","r","y">>,
    <<"C","o","n","d","i","m","e","n","t","s">>,
    <<"V","e","g","e","t","a","b","l","e","s">>,
    <<"P","a","s","t","a">>,
    <<"F","r","u","i","t","s">>,
    <<"A","l","c","o","h","o","l">>,
    <<"O","t","h","e","r","s">>>>

\* the values crypto.randomUUID() returns
UUID(k) == 100 + k
UUIDs == {UUID(k) : k \in 1..MaxUUID}

\* { ...r, ...upd }
Spread(r, upd) ==
    [k \in (DOMAIN r) \cup (DOMAIN upd) |-> IF k \in DOMAIN upd THEN upd[k] ELSE r[k]]

\* r[k] of an object that may lack the key, in a slot of type string | undefined
Field(r, k) == IF k \in DOMAIN r THEN r[k] ELSE Undefined

(***************************** App state ***********************************)

VARIABLES
    ingredients,    \* App: the ingredient catalog (useLocalStorage)
    recipes,        \* App: the saved recipes (useLocalStorage)
    activeView,     \* App: which screen is mounted
    isEditing,      \* IngredientManager: id under edit, or NULL
    newIng,         \* IngredientManager: the form, a Partial<Ingredient>
    isImporting,    \* IngredientManager: import button disabled
    uploads,        \* handleFileUpload calls suspended at await file.arrayBuffer()
    view,           \* RecipeManager: 'list' | 'edit'
    activeRecipe,   \* RecipeManager: the recipe in the editor, or NULL
    aiLoading,      \* RecipeManager: Auto-Fill button disabled
    aiRequest,      \* handleGenerateAI call suspended at await generateRecipeDraft
    ops,            \* number of writes to ingredients / recipes so far
    lastOp,         \* the handler that ran last, its input and what it reported
    probe,          \* input and result of a function applied on its own
    aiAnalysis,     \* RecipeManager: the analysis text shown, '' when none
    aiAnalysisLoading, \* RecipeManager: Analyze Profitability button disabled
    aiOrphans       \* handleGenerateAI calls of unmounted RecipeManagers still
                    \* suspended at their await (counted where a claim needs them)

vars == <<ingredients, recipes, activeView, isEditing, newIng, isImporting,
          uploads, view, activeRecipe, aiLoading, aiRequest, ops, lastOp,
          probe, aiAnalysis, aiAnalysisLoading, aiOrphans>>

NULL == [t |-> "null"]
\* isEditing === null (ids are positive)
NoId == 0

SeedIngredients == <<
    [id |-> 1, name |-> Flour, category |-> INGREDIENT_CATEGORIES[3],
     purchaseUnit |-> KILOGRAM, purchaseCost |-> Num(18000),
     purchaseQuantity |-> Num(1), costPerBaseUnit |-> Num(18)],
    [id |-> 2, name |-> Eggs, category |-> INGREDIENT_CATEGORIES[4],
     purchaseUnit |-> PIECE, purchaseCost |-> Num(65000),
     purchaseQuantity |-> Num(30), costPerBaseUnit |-> Norm(216667, 100)],
    [id |-> 3, name |-> Milk, category |-> INGREDIENT_CATEGORIES[4],
     purchaseUnit |-> LITER, purchaseCost |-> Num(28000),
     purchaseQuantity |-> Num(1), costPerBaseUnit |-> Num(28)],
    [id |-> 4, name |-> Beef, category |-> INGREDIENT_CATEGORIES[1],
     purchaseUnit |-> KILOGRAM, purchaseCost |-> Num(140000),
     purchaseQuantity |-> Num(1), costPerBaseUnit |-> Num(140)],
    [id |-> 5, name |-> Oil, category |-> INGREDIENT_CATEGORIES[6],
     purchaseUnit |-> LITER, purchaseCost |-> Num(125000),
     purchaseQuantity |-> Num(1), costPerBaseUnit |-> Num(125)],
    [id |-> 6, name |-> Tomatoes, category |-> INGREDIENT_CATEGORIES[7],
     purchaseUnit |-> KILOGRAM, purchaseCost |-> Num(15000),
     purchaseQuantity |-> Num(1), costPerBaseUnit |-> Num(15)]>>

\* useState initial value of newIng, also what handleSave and Cancel reset it to
BlankIng == [name |-> <<>>, category |-> Others, purchaseUnit |-> KILOGRAM,
             purchaseCost |-> Num(0), purchaseQuantity |-> Num(1)]

emptyRecipe == [id |-> 0, name |-> NewRecipeName, description |-> <<>>,
                servings |-> Num(4), ingredients |-> <<>>, laborCost |-> Num(0),
                overheadPercentage |-> Num(10),
                targetFoodCostPercentage |-> Num(30)]

NoOp == [op |-> "none"]
Idle == [fn |-> "none"]

\* state of a freshly mounted IngredientManager
IngredientManagerMount ==
    /\ isEditing' = NoId
    /\ newIng' = BlankIng
    /\ isImporting' = FALSE

\* state of a freshly mounted RecipeManager; a suspended handleGenerateAI of
\* the unmounted instance can no longer set any state
RecipeManagerMount ==
    /\ view' = "list"
    /\ activeRecipe' = NULL
    /\ aiLoading' = FALSE
    /\ aiRequest' = NULL
    /\ aiAnalysis' = ""
    /\ aiAnalysisLoading' = FALSE

Init ==
    /\ ingredients = SeedIngredients
    /\ recipes = <<>>
    /\ activeView = "dashboard"
    /\ isEditing = NoId
    /\ newIng = BlankIng
    /\ isImporting = FALSE
    /\ uploads = 0
    /\ view = "list"
    /\ activeRecipe = NULL
    /\ aiLoading = FALSE
    /\ aiRequest = NULL
    /\ ops = 0
    /\ lastOp = NoOp
    /\ probe = Idle
    /\ aiOrphans = 0
    /\ aiAnalysis = ""
    /\ aiAnalysisLoading = FALSE

(***************************** App handlers ********************************)

handleAddIngredient(prev, ing) == Append(prev, ing)

handleBulkAddIngredients_Prepend(prev, newIngredients) == newIngredients \o prev

handleBulkAddIngredients(prev, newIngredients) == prev \o newIngredients

handleUpdateIngredient_Upsert(ings, updatedIng) ==
    IF \E k \in 1..Len(ings) : ings[k].id = updatedIng.id
    THEN [k \in 1..Len(ings) |-> IF ings[k].id = updatedIng.id THEN updatedIng ELSE ings[k]]
    ELSE Append(ings, updatedIng)

handleUpdateIngredient(ings, updatedIng) ==
    [k \in 1..Len(ings) |-> IF ings[k].id = updatedIng.id THEN updatedIng ELSE ings[k]]

isUsed_ByRecipeId(recs, id) == \E r \in 1..Len(recs) : recs[r].id = id

isUsed(recs, id) ==
    \E r \in 1..Len(recs) :
        \E ri \in 1..Len(recs[r].ingredients) : recs[r].ingredients[ri].ingredientId = id

handleDeleteIngredient_Unguarded(ings, recs, id) ==
    SelectSeq(ings, LAMBDA i : i.id # id)

handleDeleteIngredient_FilterInverted(ings, recs, id) ==
    IF isUsed(recs, id) THEN ings ELSE SelectSeq(ings, LAMBDA i : i.id = id)

handleDeleteIngredient(ings, recs, id) ==
    IF isUsed(recs, id) THEN ings ELSE SelectSeq(ings, LAMBDA i : i.id # id)

handleSaveRecipe_AlwaysAppend(recs, recipe) == Append(recs, recipe)

handleSaveRecipe(recs, recipe) ==
    IF \E k \in 1..Len(recs) : recs[k].id = recipe.id
    THEN [k \in 1..Len(recs) |-> IF recs[k].id = recipe.id THEN recipe ELSE recs[k]]
    ELSE Append(recs, recipe)

handleDeleteRecipe(recs, id, confirmed) ==
    IF confirmed THEN SelectSeq(recs, LAMBDA r : r.id # id) ELSE recs


(********************** JavaScript conversions *****************************)

Digits == <<"0","1","2","3","4","5","6","7","8","9">>
IsDigit(c) == \E d \in 1..10 : Digits[d] = c
DigitVal(c) == (CHOOSE d \in 1..10 : Digits[d] = c) - 1

\* a || b on dynamically typed values
Truthy(x) ==
    CASE x.t = "undefined" -> FALSE
      [] x.t = "string" -> x.v # <<>>
      [] x.t = "number" -> NumTruthy(x.v)
Or(a, b) == IF Truthy(a) THEN a ELSE b

\* number of leading digits of s from position i on
RECURSIVE DigitRun(_, _)
DigitRun(s, i) == IF i <= Len(s) /\ IsDigit(s[i]) THEN 1 + DigitRun(s, i + 1) ELSE 0

RECURSIVE DigitsValue(_)
DigitsValue(ds) ==
    IF ds = <<>> THEN 0
    ELSE 10 * DigitsValue(SubSeq(ds, 1, Len(ds) - 1)) + DigitVal(ds[Len(ds)])

RECURSIVE Pow10(_)
Pow10(k) == IF k = 0 THEN 1 ELSE 10 * Pow10(k - 1)

\* leading white space skipped
RECURSIVE SkipSpace(_, _)
SkipSpace(s, i) == IF i <= Len(s) /\ s[i] \in WhiteSpace THEN SkipSpace(s, i + 1) ELSE i

\* parseFloat of a string: [ws] [sign] digits [. digits], the longest such
\* prefix; NaN when it has no digit (exponents are not among the inputs)
ParseFloatString(s) ==
    LET b == SkipSpace(s, 1)
        neg == b <= Len(s) /\ s[b] = "-"
        i == IF b <= Len(s) /\ s[b] \in {"-", "+"} THEN b + 1 ELSE b
        ni == DigitRun(s, i)
        dot == i + ni <= Len(s) /\ s[i + ni] = "."
        nf == IF dot THEN DigitRun(s, i + ni + 1) ELSE 0
        ip == DigitsValue(SubSeq(s, i, i + ni - 1))
        fp == DigitsValue(SubSeq(s, i + ni + 1, i + ni + nf))
        mag == Norm(ip * Pow10(nf) + fp, Pow10(nf))
    IN  IF ni + nf = 0 THEN NaN
        ELSE IF neg THEN Norm(-mag[1], mag[2]) ELSE mag

\* parseFloat(x): a number converts to a string and parses back to itself
parseFloat(x) ==
    CASE x.t = "number" -> x.v
      [] x.t = "string" -> ParseFloatString(x.v)
      [] x.t = "undefined" -> NaN

RECURSIVE NatToString(_)
NatToString(n) ==
    IF n < 10 THEN <<Digits[n + 1]>>
    ELSE Append(NatToString(n \div 10), Digits[(n % 10) + 1])

\* String(x); the numbers among the inputs that reach it are naturals
String(x) ==
    CASE x.t = "string" -> x.v
      [] x.t = "number" -> NatToString(x.v[1])
      [] x.t = "undefined" -> <<"u","n","d","e","f","i","n","e","d">>

\* row[key] of a sheet row
Cell(row, key) == IF key \in DOMAIN row THEN row[key] ELSE Undef

(************************ handleFileUpload: rows ***************************)

RowName(row) ==
    Or(Cell(row, "Name"), Or(Cell(row, "name"), Or(Cell(row, "Ingredient"),
       Or(Cell(row, "ingredient"), Cell(row, "Item")))))

RowCategory(row) ==
    LET category == Or(Cell(row, "Category"), Or(Cell(row, "category"), Str(Others)))
        lc == toLowerCase(String(category))
        hits == {k \in 1..Len(INGREDIENT_CATEGORIES) :
                    toLowerCase(INGREDIENT_CATEGORIES[k]) = lc}
    IN  IF hits # {}
        THEN INGREDIENT_CATEGORIES[CHOOSE k \in hits : \A j \in hits : k <= j]
        ELSE String(category)

RowCost(row) ==
    parseFloat(Or(Cell(row, "Cost"), Or(Cell(row, "cost"), Or(Cell(row, "Price"),
               Or(Cell(row, "price"), Str(<<"0">>))))))

RowQty(row) ==
    parseFloat(Or(Cell(row, "Quantity"), Or(Cell(row, "quantity"), Or(Cell(row, "Qty"),
               Or(Cell(row, "qty"), Str(<<"1">>))))))

RowUnitRaw(row) ==
    Or(Cell(row, "Unit"), Or(Cell(row, "unit"), Or(Cell(row, "UOM"), Str(<<"k","g">>))))

RowAdmitted_CostNotNegative(row) ==
    Truthy(RowName(row)) /\ ~NumGt(Num(0), RowCost(row)) /\ ~IsNaN(RowCost(row))

\* if (name && cost > 0)
RowAdmitted(row) == Truthy(RowName(row)) /\ NumGt0(RowCost(row))

RowIngredient(row, id) ==
    LET unit == parseUnit(String(RowUnitRaw(row)))
    IN  [id |-> id, name |-> String(RowName(row)), category |-> RowCategory(row),
         purchaseUnit |-> unit, purchaseCost |-> RowCost(row),
         purchaseQuantity |-> RowQty(row),
         costPerBaseUnit |-> calculateBaseCost(unit, RowCost(row), RowQty(row))]

\* jsonData.forEach: parsedIngredients after the rows seen so far, the k-th
\* admitted row taking the k-th of the ids crypto.randomUUID() returns
RECURSIVE ParseRows(_, _)
ParseRows(jsonData, ids) ==
    IF jsonData = <<>> THEN <<>>
    ELSE LET front == ParseRows(SubSeq(jsonData, 1, Len(jsonData) - 1), ids)
             row == jsonData[Len(jsonData)]
         IN  IF RowAdmitted(row)
             THEN Append(front, RowIngredient(row, ids[Len(front) + 1]))
             ELSE front

RECURSIVE CountAdmitted(_)
CountAdmitted(jsonData) ==
    IF jsonData = <<>> THEN 0
    ELSE CountAdmitted(Tail(jsonData)) + (IF RowAdmitted(Head(jsonData)) THEN 1 ELSE 0)


(************************** crypto.randomUUID ******************************)

LineIds(recipe) == {recipe.ingredients[k].ingredientId : k \in 1..Len(recipe.ingredients)}
CatalogIds(ings) == {ings[k].id : k \in 1..Len(ings)}

\* every id some part of the state holds
UsedIds ==
    CatalogIds(ingredients)
    \cup {recipes[k].id : k \in 1..Len(recipes)}
    \cup UNION {LineIds(recipes[k]) : k \in 1..Len(recipes)}
    \cup (IF activeRecipe = NULL THEN {} ELSE {activeRecipe.id} \cup LineIds(activeRecipe))
    \cup {isEditing}
    \cup (IF aiRequest = NULL THEN {}
          ELSE CatalogIds(aiRequest.ingredients) \cup {aiRequest.recipe})

RECURSIVE Ascending(_)
Ascending(S) ==
    IF S = {} THEN <<>>
    ELSE LET m == CHOOSE x \in S : \A y \in S : x <= y
         IN  <<m>> \o Ascending(S \ {m})

\* crypto.randomUUID() returns a value no id in use equals; which one is
\* immaterial, and successive calls take the unused values in ascending order
FreshIds == Ascending(UUIDs \ UsedIds)

(************************** inputs of the model ****************************)

\* what the user types or selects in the ingredient form
FormNames == {Salt}
FormUnits == {PIECE}
FormQuantities == {Num(0)}
FormCosts == {Num(3000)}

\* rows of imported sheets
RowGood == [Name |-> Str(Salt), Cost |-> Number(Num(3000)),
            Quantity |-> Number(Num(2)), Unit |-> Str(<<" ","K","G","S">>)]
RowCostZero == [Name |-> Str(Salt), Cost |-> Number(Num(0)), Unit |-> Str(<<"g">>)]
RowNoName == [Cost |-> Number(Num(3000)), Quantity |-> Number(Num(2))]
RowPriceText == [Name |-> Str(<<>>), Item |-> Str(Soup), Cost |-> Number(Num(0)),
                 price |-> Str(<<"1","2",".","5","0"," ","R","p">>),
                 category |-> Str(<<"d","a","i","r","y">>)]
RowCostText == [name |-> Str(Salt), Cost |-> Str(<<"n","/","a">>)]
RowLitres == [ingredient |-> Str(Milk), Price |-> Number(Num(28000)),
              Qty |-> Number(Num(1)), UOM |-> Str(<<"L","i","t","e","r","s">>)]
Rows == {RowGood, RowCostZero, RowNoName, RowPriceText, RowCostText, RowLitres}

RECURSIVE SeqsUpTo(_, _)
SeqsUpTo(S, n) ==
    IF n = 0 THEN {<<>>}
    ELSE LET shorter == SeqsUpTo(S, n - 1)
         IN  shorter \cup {Append(s, x) : s \in {q \in shorter : Len(q) = n - 1}, x \in S}

Sheets == SeqsUpTo(Rows, MaxRows)
\* the sheets imported while the rest of the application is exercised
AppSheets == SeqsUpTo({RowGood, RowCostZero}, 1)

\* the catalog rows the user clicks on
Clickable(ings) ==
    {k \in 1..Len(ings) : ings[k].id <= MaxSeedUsed \/ ings[k].id \in UUIDs}

(*********************** IngredientManager actions *************************)

IngredientsMounted == activeView = "ingredients"

RecipeManagerUnchanged ==
    UNCHANGED <<view, activeRecipe, aiLoading, aiRequest, aiAnalysis, aiAnalysisLoading>>

\* onChange of the name / unit / quantity / cost inputs
SetNewIng(upd) ==
    /\ IngredientsMounted
    /\ newIng' = Spread(newIng, upd)
    /\ lastOp' = NoOp
    /\ UNCHANGED <<ingredients, recipes, activeView, isEditing, isImporting, uploads, ops, probe,
                   aiOrphans>>
    /\ RecipeManagerUnchanged

NameChange == \E v \in FormNames : SetNewIng([name |-> v])
UnitChange == \E v \in FormUnits : SetNewIng([purchaseUnit |-> v])
QuantityChange == \E v \in FormQuantities : SetNewIng([purchaseQuantity |-> v])
CostChange == \E v \in FormCosts : SetNewIng([purchaseCost |-> v])

startEdit ==
    /\ IngredientsMounted
    /\ \E k \in Clickable(ingredients) :
          /\ isEditing' = ingredients[k].id
          /\ newIng' = ingredients[k]
    /\ lastOp' = NoOp
    /\ UNCHANGED <<ingredients, recipes, activeView, isImporting, uploads, ops,
                   probe, aiOrphans>>
    /\ RecipeManagerUnchanged

CancelEdit ==
    /\ IngredientsMounted
    /\ isEditing # NoId
    /\ isEditing' = NoId
    /\ newIng' = BlankIng
    /\ lastOp' = NoOp
    /\ UNCHANGED <<ingredients, recipes, activeView, isImporting, uploads, ops,
                   probe, aiOrphans>>
    /\ RecipeManagerUnchanged

\* if (!newIng.name || newIng.purchaseCost === undefined || !newIng.purchaseQuantity)
SaveRejected(form) ==
    \/ form.name = <<>>
    \/ "purchaseCost" \notin DOMAIN form
    \/ ~NumTruthy(form.purchaseQuantity)

FormIngredient_KeepDerived(form, id) ==
    [id |-> id, name |-> form.name,
     category |-> IF form.category = <<>> THEN Others ELSE form.category,
     purchaseUnit |-> form.purchaseUnit, purchaseCost |-> form.purchaseCost,
     purchaseQuantity |-> form.purchaseQuantity,
     costPerBaseUnit |-> IF "costPerBaseUnit" \in DOMAIN form
                         THEN form.costPerBaseUnit
                         ELSE calculateBaseCost(form.purchaseUnit, form.purchaseCost,
                                                form.purchaseQuantity)]

\* the Ingredient handleSave builds from the form
FormIngredient(form, id) ==
    LET quantity == form.purchaseQuantity
        cost == form.purchaseCost
        unit == form.purchaseUnit
    IN  [id |-> id, name |-> form.name,
         category |-> IF form.category = <<>> THEN Others ELSE form.category,
         purchaseUnit |-> unit, purchaseCost |-> cost, purchaseQuantity |-> quantity,
         costPerBaseUnit |-> calculateBaseCost(unit, cost, quantity)]

handleSave ==
    /\ IngredientsMounted
    /\ IF SaveRejected(newIng)
       THEN /\ lastOp' = [op |-> "handleSave", written |-> FALSE]
            /\ UNCHANGED <<ingredients, isEditing, newIng, ops>>
       ELSE /\ ops < MaxOps
            /\ ops' = ops + 1
            /\ newIng' = BlankIng
            /\ isEditing' = NoId
            /\ IF isEditing # NoId
               THEN /\ ingredients' =
                         handleUpdateIngredient(ingredients, FormIngredient(newIng, isEditing))
                    /\ lastOp' = [op |-> "onUpdateIngredient", written |-> TRUE,
                                  id |-> isEditing, form |-> newIng]
               ELSE /\ FreshIds # <<>>
                    /\ ingredients' =
                         handleAddIngredient(ingredients, FormIngredient(newIng, FreshIds[1]))
                    /\ lastOp' = [op |-> "onAddIngredient", written |-> TRUE,
                                  id |-> FreshIds[1]]
    /\ UNCHANGED <<recipes, activeView, isImporting, uploads, probe, aiOrphans>>
    /\ RecipeManagerUnchanged

onDeleteIngredient_Cascade ==
    /\ IngredientsMounted
    /\ \E k \in Clickable(ingredients) :
          LET id == ingredients[k].id
          IN  /\ ingredients' = handleDeleteIngredient_Unguarded(ingredients, recipes, id)
              /\ recipes' =
                   [r \in 1..Len(recipes) |->
                      Spread(recipes[r],
                             [ingredients |->
                                SelectSeq(recipes[r].ingredients,
                                          LAMBDA ri : ri.ingredientId # id)])]
              /\ lastOp' = [op |-> "onDeleteIngredient", id |-> id]
              /\ ops < MaxOps /\ ops' = ops + 1
    /\ UNCHANGED <<activeView, isEditing, newIng, isImporting, uploads, probe, aiOrphans>>
    /\ RecipeManagerUnchanged

onDeleteIngredient ==
    /\ IngredientsMounted
    /\ \E k \in Clickable(ingredients) :
          LET id == ingredients[k].id
          IN  /\ ingredients' = handleDeleteIngredient(ingredients, recipes, id)
              /\ lastOp' = [op |-> "onDeleteIngredient", id |-> id]
              /\ IF ingredients' # ingredients
                 THEN ops < MaxOps /\ ops' = ops + 1
                 ELSE UNCHANGED ops
    /\ UNCHANGED <<recipes, activeView, isEditing, newIng, isImporting, uploads,
                   probe, aiOrphans>>
    /\ RecipeManagerUnchanged

\* handleFileUpload up to await file.arrayBuffer()
FileUploadStart ==
    /\ IngredientsMounted
    /\ isEditing = NoId
    /\ ~isImporting
    /\ uploads < MaxUploads
    /\ isImporting' = TRUE
    /\ uploads' = uploads + 1
    /\ lastOp' = NoOp
    /\ UNCHANGED <<ingredients, recipes, activeView, isEditing, newIng, ops, probe, aiOrphans>>
    /\ RecipeManagerUnchanged

\* finally { setIsImporting(false) }: it is the mounted instance's call that
\* resumes when own is TRUE, a call of an unmounted instance otherwise
FileUploadFinally(own) ==
    /\ IF own THEN isImporting ELSE uploads > (IF isImporting THEN 1 ELSE 0)
    /\ isImporting' = IF own THEN FALSE ELSE isImporting
    /\ uploads' = uploads - 1

\* handleFileUpload from the await on: the sheet is read and its rows parsed
FileUploadParsed(files) ==
    /\ \E own \in BOOLEAN : FileUploadFinally(own)
    /\ \E jsonData \in files :
          IF CountAdmitted(jsonData) > 0
          THEN LET parsedIngredients == ParseRows(jsonData, FreshIds)
               IN  /\ CountAdmitted(jsonData) <= Len(FreshIds)
                   /\ ops < MaxOps
                   /\ ops' = ops + 1
                   /\ ingredients' = handleBulkAddIngredients(ingredients, parsedIngredients)
                   /\ lastOp' = [op |-> "import", rows |-> jsonData,
                                 alert |-> "imported", count |-> Len(parsedIngredients)]
          ELSE /\ lastOp' = [op |-> "import", rows |-> jsonData, alert |-> "no valid"]
               /\ UNCHANGED <<ingredients, ops>>
    /\ UNCHANGED <<recipes, activeView, isEditing, newIng, probe, aiOrphans>>
    /\ RecipeManagerUnchanged

\* handleFileUpload from the await on: read(data) throws
FileUploadFailed ==
    /\ \E own \in BOOLEAN : FileUploadFinally(own)
    /\ lastOp' = NoOp
    /\ UNCHANGED <<ingredients, recipes, activeView, isEditing, newIng, ops, probe, aiOrphans>>
    /\ RecipeManagerUnchanged

(***************************** navigation **********************************)

\* the sidebar buttons: the screen left is unmounted, the one entered mounts
setActiveView ==
    /\ \E v \in {"dashboard", "ingredients", "recipes"} :
          /\ v # activeView
          /\ activeView' = v
    /\ IngredientManagerMount
    /\ RecipeManagerMount
    /\ lastOp' = NoOp
    /\ UNCHANGED <<ingredients, recipes, uploads, ops, probe, aiOrphans>>


(************************* RecipeManager inputs ****************************)

\* what the user types into the recipe editor
EditorNames == {<<>>}
EditorServings == {Num(0)}
EditorQuantities == {Num(250)}

Tasty == <<"T","a","s","t","y">>
LowerFlour == <<"a","l","l","-","p","u","r","p","o","s","e"," ","f","l","o","u","r">>
Saffron == <<"S","a","f","f","r","o","n">>

\* responses of generateRecipeDraft: JSON.parse(response.text || "{}")
DraftMatched ==
    [description |-> Str(Tasty), servings |-> Number(Num(2)),
     ingredients |-> [t |-> "array",
                      v |-> <<[name |-> Str(Saffron), quantity |-> Num(1), unit |-> "g"],
                              [name |-> Str(LowerFlour), quantity |-> Norm(1, 2), unit |-> "kg"]>>]]
DraftUnmatched ==
    [instructions |-> Str(Tasty), servings |-> Number(Num(0)),
     ingredients |-> [t |-> "array",
                      v |-> <<[name |-> Str(Saffron), quantity |-> Num(1), unit |-> "g"]>>]]
DraftNameless ==
    [description |-> Str(Tasty),
     ingredients |-> [t |-> "array", v |-> <<[quantity |-> Num(1), unit |-> "g"]>>]]
DraftEmpty == [t |-> "object"]
Drafts == {DraftMatched, DraftUnmatched, DraftNameless, DraftEmpty}
\* the responses received while the rest of the application is exercised
AppDrafts == {DraftMatched, DraftNameless}

(************************* RecipeManager actions ***************************)

RecipesMounted == activeView = "recipes"
ListView == RecipesMounted /\ view = "list"
EditView == RecipesMounted /\ view = "edit" /\ activeRecipe # NULL

IngredientManagerUnchanged == UNCHANGED <<isEditing, newIng, isImporting>>

handleCreateNew ==
    /\ ListView
    /\ Len(recipes) < MaxRecipes
    /\ FreshIds # <<>>
    /\ activeRecipe' = Spread(emptyRecipe, [id |-> FreshIds[1]])
    /\ view' = "edit"
    /\ lastOp' = NoOp
    /\ aiAnalysis' = ""
    /\ UNCHANGED <<ingredients, recipes, activeView, uploads, aiLoading, aiRequest, ops,
                   probe, aiOrphans, aiAnalysisLoading>>
    /\ IngredientManagerUnchanged

handleEdit ==
    /\ ListView
    /\ \E k \in 1..Len(recipes) : activeRecipe' = recipes[k]
    /\ view' = "edit"
    /\ lastOp' = NoOp
    /\ aiAnalysis' = ""
    /\ UNCHANGED <<ingredients, recipes, activeView, uploads, aiLoading, aiRequest,
                   ops, probe, aiOrphans, aiAnalysisLoading>>
    /\ IngredientManagerUnchanged

\* the arrow button of the editor
BackToList ==
    /\ EditView
    /\ view' = "list"
    /\ lastOp' = NoOp
    /\ UNCHANGED <<ingredients, recipes, activeView, uploads, activeRecipe, aiLoading,
                   aiRequest, ops, probe, aiOrphans,
                   aiAnalysis, aiAnalysisLoading>>
    /\ IngredientManagerUnchanged

\* setActiveRecipe({ ...activeRecipe, ...upd }) of the editor's handlers
SetActiveRecipe(upd) ==
    /\ EditView
    /\ activeRecipe' = Spread(activeRecipe, upd)
    /\ lastOp' = NoOp
    /\ UNCHANGED <<ingredients, recipes, activeView, uploads, view, aiLoading, aiRequest, ops, probe,
                   aiOrphans,
                   aiAnalysis, aiAnalysisLoading>>
    /\ IngredientManagerUnchanged

RecipeNameChange == \E v \in EditorNames : SetActiveRecipe([name |-> v])
ServingsChange == \E v \in EditorServings : SetActiveRecipe([servings |-> v])

addIngredientToRecipe ==
    /\ Len(ingredients) # 0
    /\ EditView
    /\ Len(activeRecipe.ingredients) < MaxLines
    /\ LET firstIng == ingredients[1]
           newItem == [ingredientId |-> firstIng.id, quantity |-> Num(100), unit |-> GRAM]
       IN  SetActiveRecipe([ingredients |-> Append(activeRecipe.ingredients, newItem)])

\* the select and the quantity input of an ingredient line
updateRecipeIngredient ==
    /\ EditView
    /\ \E index \in 1..Len(activeRecipe.ingredients) :
          \E upd \in {[ingredientId |-> ingredients[k].id] : k \in Clickable(ingredients)}
                     \cup {[quantity |-> v] : v \in EditorQuantities} :
             LET newItems == [activeRecipe.ingredients EXCEPT
                                 ![index] = Spread(activeRecipe.ingredients[index], upd)]
             IN  SetActiveRecipe([ingredients |-> newItems])

removeRecipeIngredient ==
    /\ EditView
    /\ \E index \in 1..Len(activeRecipe.ingredients) :
          LET items == activeRecipe.ingredients
              newItems == [k \in 1..(Len(items) - 1) |->
                              IF k < index THEN items[k] ELSE items[k + 1]]
          IN  SetActiveRecipe([ingredients |-> newItems])

\* the Save Recipe button: onSaveRecipe(activeRecipe); setView('list')
SaveRecipe ==
    /\ EditView
    /\ ops < MaxOps
    /\ ops' = ops + 1
    /\ recipes' = handleSaveRecipe(recipes, activeRecipe)
    /\ view' = "list"
    /\ lastOp' = [op |-> "onSaveRecipe", id |-> activeRecipe.id]
    /\ UNCHANGED <<ingredients, activeView, uploads, activeRecipe, aiLoading, aiRequest, probe,
                   aiOrphans,
                   aiAnalysis, aiAnalysisLoading>>
    /\ IngredientManagerUnchanged

\* the trash button of a recipe card, answered by confirm()
onDeleteRecipe ==
    /\ ListView
    /\ \E k \in 1..Len(recipes), confirmed \in BOOLEAN :
          /\ recipes' = handleDeleteRecipe(recipes, recipes[k].id, confirmed)
          /\ lastOp' = [op |-> "onDeleteRecipe", id |-> recipes[k].id]
          /\ IF confirmed THEN ops < MaxOps /\ ops' = ops + 1 ELSE UNCHANGED ops
    /\ UNCHANGED <<ingredients, activeView, uploads, view, activeRecipe, aiLoading,
                   aiRequest, probe, aiOrphans,
                   aiAnalysis, aiAnalysisLoading>>
    /\ IngredientManagerUnchanged

\* handleGenerateAI up to await generateRecipeDraft(activeRecipe.name, ingredients);
\* the call keeps the catalog of the render it was started from (recipe is
\* the id of the recipe in the editor at that moment, which the call itself
\* does not keep)
GenerateAIStart ==
    /\ EditView
    /\ ~aiLoading
    /\ IF activeRecipe.name = <<>>
       THEN UNCHANGED <<aiLoading, aiRequest>>
       ELSE /\ aiLoading' = TRUE
            /\ aiRequest' = [name |-> activeRecipe.name, ingredients |-> ingredients,
                             recipe |-> activeRecipe.id]
    /\ lastOp' = NoOp
    /\ UNCHANGED <<ingredients, recipes, activeView, uploads, view, activeRecipe,
                   ops, probe, aiOrphans,
                   aiAnalysis, aiAnalysisLoading>>
    /\ IngredientManagerUnchanged

FindByName_Includes(ings, name) ==
    LET Includes(s, part) ==
            \E i \in 0..(Len(s) - Len(part)) : SubSeq(s, i + 1, i + Len(part)) = part
        hits == {k \in 1..Len(ings) : Includes(toLowerCase(ings[k].name), toLowerCase(name))}
    IN  IF hits = {} THEN 0 ELSE CHOOSE k \in hits : \A j \in hits : k <= j

\* ingredients.find(i => i.name.toLowerCase() === suggested.name.toLowerCase())
FindByName(ings, name) ==
    LET hits == {k \in 1..Len(ings) : toLowerCase(ings[k].name) = toLowerCase(name)}
    IN  IF hits = {} THEN 0 ELSE CHOOSE k \in hits : \A j \in hits : k <= j

SuggestionThrows_OnUnmatched(ings, suggested) ==
    \/ Len(ings) > 0 /\ ("name" \notin DOMAIN suggested \/ suggested.name.t # "string")
    \/ FindByName(ings, suggested.name.v) = 0

\* suggested.name.toLowerCase() raises a TypeError unless name is a string;
\* find evaluates it once per catalog entry
SuggestionThrows(ings, suggested) ==
    /\ Len(ings) > 0
    /\ ("name" \notin DOMAIN suggested \/ suggested.name.t # "string")

RECURSIVE Reconcile_KgOnly(_, _)
Reconcile_KgOnly(ings, suggestions) ==
    IF suggestions = <<>> THEN <<>>
    ELSE LET front == Reconcile_KgOnly(ings, SubSeq(suggestions, 1, Len(suggestions) - 1))
             suggested == suggestions[Len(suggestions)]
             match == FindByName(ings, suggested.name.v)
             qty == IF suggested.unit = "kg"
                    THEN NumMul(suggested.quantity, Num(1000))
                    ELSE suggested.quantity
         IN  IF match # 0
             THEN Append(front, [ingredientId |-> ings[match].id, quantity |-> qty,
                                 unit |-> suggested.unit])
             ELSE front

\* the body of draft.ingredients?.forEach: newIngredients after the suggestions
RECURSIVE Reconcile(_, _)
Reconcile(ings, suggestions) ==
    IF suggestions = <<>> THEN <<>>
    ELSE LET front == Reconcile(ings, SubSeq(suggestions, 1, Len(suggestions) - 1))
             suggested == suggestions[Len(suggestions)]
             match == FindByName(ings, suggested.name.v)
             qty == IF suggested.unit = "kg" \/ suggested.unit = "l"
                    THEN NumMul(suggested.quantity, Num(1000))
                    ELSE suggested.quantity
         IN  IF match # 0
             THEN Append(front, [ingredientId |-> ings[match].id, quantity |-> qty,
                                 unit |-> suggested.unit])
             ELSE front

DraftField(draft, k) == IF k \in DOMAIN draft THEN draft[k] ELSE Undef

\* the catch branch is taken
DraftThrows(ings, draft) ==
    LET list == DraftField(draft, "ingredients")
    IN  /\ list.t # "undefined"
        /\ \/ list.t # "array"
           \/ \E k \in 1..Len(list.v) : SuggestionThrows(ings, list.v[k])

MergeDraft_Overwrite(prev, ings, draft) ==
    LET list == DraftField(draft, "ingredients")
        newIngredients == IF list.t = "array" THEN Reconcile(ings, list.v) ELSE <<>>
        description == DraftField(draft, "description")
        instructions == DraftField(draft, "instructions")
        servings == DraftField(draft, "servings")
    IN  IF prev = NULL THEN NULL
        ELSE Spread(prev,
               [description |-> IF description.t # "undefined" THEN description.v
                                ELSE prev.description,
                instructions |-> IF instructions.t # "undefined" THEN instructions.v
                                 ELSE Field(prev, "instructions"),
                servings |-> IF servings.t # "undefined" THEN servings.v ELSE prev.servings,
                ingredients |-> IF Len(newIngredients) > 0 THEN newIngredients
                                ELSE prev.ingredients])

MergeDraft_AlwaysReplaceList(prev, ings, draft) ==
    LET list == DraftField(draft, "ingredients")
        newIngredients == IF list.t = "array" THEN Reconcile(ings, list.v) ELSE <<>>
        description == DraftField(draft, "description")
        instructions == DraftField(draft, "instructions")
        servings == DraftField(draft, "servings")
    IN  IF prev = NULL THEN NULL
        ELSE Spread(prev,
               [description |-> IF Truthy(description) THEN description.v
                                ELSE prev.description,
                instructions |-> IF Truthy(instructions) THEN instructions.v
                                 ELSE Field(prev, "instructions"),
                servings |-> IF Truthy(servings) THEN servings.v ELSE prev.servings,
                ingredients |-> newIngredients])

\* the function passed to setActiveRecipe
MergeDraft(prev, ings, draft) ==
    LET list == DraftField(draft, "ingredients")
        newIngredients == IF list.t = "array" THEN Reconcile(ings, list.v) ELSE <<>>
        description == DraftField(draft, "description")
        instructions == DraftField(draft, "instructions")
        servings == DraftField(draft, "servings")
    IN  IF prev = NULL THEN NULL
        ELSE Spread(prev,
               [description |-> IF Truthy(description) THEN description.v
                                ELSE prev.description,
                instructions |-> IF Truthy(instructions) THEN instructions.v
                                 ELSE Field(prev, "instructions"),
                servings |-> IF Truthy(servings) THEN servings.v ELSE prev.servings,
                ingredients |-> IF Len(newIngredients) > 0 THEN newIngredients
                                ELSE prev.ingredients])

GenerateAIResolved_PartialMerge(responses) ==
    /\ RecipesMounted
    /\ aiRequest # NULL
    /\ \E draft \in responses :
          IF DraftThrows(aiRequest.ingredients, draft)
          THEN /\ lastOp' = [op |-> "generateAIDone", alert |-> "failed", draft |-> draft]
               /\ activeRecipe' =
                    MergeDraft(activeRecipe, aiRequest.ingredients,
                               [k \in DOMAIN draft \ {"ingredients"} |-> draft[k]])
          ELSE /\ lastOp' = [op |-> "generateAIDone", alert |-> "none", draft |-> draft]
               /\ activeRecipe' = MergeDraft(activeRecipe, aiRequest.ingredients, draft)
    /\ aiLoading' = FALSE
    /\ aiRequest' = NULL
    /\ UNCHANGED <<ingredients, recipes, activeView, uploads, view, ops, probe, aiOrphans,
                   aiAnalysis, aiAnalysisLoading>>
    /\ IngredientManagerUnchanged

\* handleGenerateAI from the await on, the service having answered
GenerateAIResolved(responses) ==
    /\ RecipesMounted
    /\ aiRequest # NULL
    /\ \E draft \in responses :
          IF DraftThrows(aiRequest.ingredients, draft)
          THEN /\ lastOp' = [op |-> "generateAIDone", alert |-> "failed", draft |-> draft]
               /\ UNCHANGED activeRecipe
          ELSE /\ lastOp' = [op |-> "generateAIDone", alert |-> "none", draft |-> draft]
               /\ activeRecipe' = MergeDraft(activeRecipe, aiRequest.ingredients, draft)
    /\ aiLoading' = FALSE
    /\ aiRequest' = NULL
    /\ UNCHANGED <<ingredients, recipes, activeView, uploads, view, ops, probe, aiOrphans,
                   aiAnalysis, aiAnalysisLoading>>
    /\ IngredientManagerUnchanged

GenerateAIRejected_NoFinally ==
    /\ RecipesMounted
    /\ aiRequest # NULL
    /\ lastOp' = [op |-> "generateAIDone", alert |-> "failed"]
    /\ aiRequest' = NULL
    /\ UNCHANGED <<ingredients, recipes, activeView, uploads, view, activeRecipe,
                   aiLoading, ops, probe, aiOrphans, aiAnalysis, aiAnalysisLoading>>
    /\ IngredientManagerUnchanged

\* handleGenerateAI from the await on, generateRecipeDraft having thrown
GenerateAIRejected ==
    /\ RecipesMounted
    /\ aiRequest # NULL
    /\ lastOp' = [op |-> "generateAIDone", alert |-> "failed"]
    /\ aiLoading' = FALSE
    /\ aiRequest' = NULL
    /\ UNCHANGED <<ingredients, recipes, activeView, uploads, view, activeRecipe,
                   ops, probe, aiOrphans,
                   aiAnalysis, aiAnalysisLoading>>
    /\ IngredientManagerUnchanged

(***************************** specification *******************************)

Next ==
    \/ NameChange \/ CostChange
    \/ startEdit \/ CancelEdit \/ handleSave \/ onDeleteIngredient
    \/ FileUploadStart \/ FileUploadParsed(AppSheets) \/ FileUploadFailed
    \/ setActiveView
    \/ handleCreateNew \/ handleEdit \/ BackToList
    \/ RecipeNameChange
    \/ addIngredientToRecipe \/ updateRecipeIngredient \/ removeRecipeIngredient
    \/ SaveRecipe \/ onDeleteRecipe
    \/ GenerateAIStart \/ GenerateAIResolved(AppDrafts) \/ GenerateAIRejected

Spec == Init /\ [][Next]_vars


(********************* functions applied on their own **********************)

\* the application as constructed, a function about to be applied to args
InitApplying(fn, inputs) ==
    /\ ingredients = SeedIngredients
    /\ recipes = <<>>
    /\ activeView = "dashboard"
    /\ isEditing = NoId
    /\ newIng = BlankIng
    /\ isImporting = FALSE
    /\ uploads = 0
    /\ view = "list"
    /\ activeRecipe = NULL
    /\ aiLoading = FALSE
    /\ aiRequest = NULL
    /\ ops = 0
    /\ lastOp = NoOp
    /\ probe \in {[fn |-> fn, args |-> a] : a \in inputs}
    /\ aiOrphans = 0
    /\ aiAnalysis = ""
    /\ aiAnalysisLoading = FALSE

Returns(result) ==
    /\ "ret" \notin DOMAIN probe
    /\ probe' = Spread(probe, [ret |-> result])
    /\ UNCHANGED <<ingredients, recipes, activeView, isEditing, newIng, isImporting,
                   uploads, view, activeRecipe, aiLoading, aiRequest, ops, lastOp,
                   aiOrphans,
                   aiAnalysis, aiAnalysisLoading>>

Returned(fn) == probe.fn = fn /\ "ret" \in DOMAIN probe

(*** calculateBaseCost ***)

BaseCostCosts == {Num(0), Num(1), Num(18000), Num(65000), Norm(3, 2), Num(-5), NaN}
BaseCostQuantities == {Num(0), Num(1), Num(30), Norm(1, 2), Num(-1), NaN}
BaseCostInputs ==
    {[unit |-> u, cost |-> c, quantity |-> q] :
        u \in Unit, c \in BaseCostCosts, q \in BaseCostQuantities}

ApplyBaseCost ==
    /\ probe.fn = "calculateBaseCost"
    /\ Returns(calculateBaseCost(probe.args.unit, probe.args.cost, probe.args.quantity))

SpecBaseCost ==
    InitApplying("calculateBaseCost", BaseCostInputs) /\ [][ApplyBaseCost]_vars

\* the factor the specification gives each purchase unit
Factor(u) == IF u \in {KILOGRAM, LITER} THEN 1000 ELSE 1

\* C5 as stated: for every purchase unit, cost and quantity (numbers), the
\* result is cost / (quantity * factor), and exactly 0 when quantity * factor is 0
C5_AsStated ==
    (Returned("calculateBaseCost") /\ IsFinite(probe.args.cost)
        /\ IsFinite(probe.args.quantity)) =>
      LET base == NumMul(probe.args.quantity, Num(Factor(probe.args.unit)))
      IN  probe.ret = IF base = Num(0) THEN Num(0) ELSE NumDiv(probe.args.cost, base)

\* C5 amended: the result is cost / (quantity * factor) when quantity * factor
\* is greater than 0, and exactly 0 when quantity * factor is 0, negative or
\* not a number
C5_BaseCostFormula ==
    Returned("calculateBaseCost") =>
      LET base == NumMul(probe.args.quantity, Num(Factor(probe.args.unit)))
      IN  probe.ret = IF NumGt0(base) THEN NumDiv(probe.args.cost, base) ELSE Num(0)

\* a kilogram purchase of quantity 0 and cost 18000 has been normalised to 0,
\* and a purchase of a negative quantity as well
C5_Witness ==
    /\ Returned("calculateBaseCost")
    /\ probe.args.unit = KILOGRAM
    /\ probe.args.cost = Num(18000)
    /\ probe.args.quantity \in {Num(0), Num(-1)}
    /\ probe.ret = Num(0)


(*** parseUnit ***)

UpperChar(c) == IF \E i \in 1..26 : LowerChars[i] = c
                THEN UpperChars[CHOOSE i \in 1..26 : LowerChars[i] = c]
                ELSE c
Upper(s) == [i \in 1..Len(s) |-> UpperChar(s[i])]
Capitalised(s) == [i \in 1..Len(s) |-> IF i = 1 THEN UpperChar(s[i]) ELSE s[i]]

\* the spellings parseUnit knows
KnownTokens ==
    {<<"k","g">>,
     <<"k","i","l","o","g","r","a","m">>,
     <<"k","g","s">>,
     <<"g">>,
     <<"g","r","a","m">>,
     <<"g","m","s">>,
     <<"l">>,
     <<"l","i","t","e","r">>,
     <<"l","i","t","r","e">>,
     <<"m","l">>,
     <<"m","i","l","l","i","l","i","t","e","r">>,
     <<"o","z">>,
     <<"o","u","n","c","e">>,
     <<"l","b">>,
     <<"p","o","u","n","d">>,
     <<"l","b","s">>}
\* plural forms, spellings of piece and words that name no unit
OtherTokens ==
    {<<"g","s">>,
     <<"g","r","a","m","s">>,
     <<"k","i","l","o","g","r","a","m","s">>,
     <<"l","s">>,
     <<"l","i","t","e","r","s">>,
     <<"m","l","s">>,
     <<"m","i","l","l","i","l","i","t","e","r","s">>,
     <<"o","z","s">>,
     <<"o","u","n","c","e","s">>,
     <<"p","o","u","n","d","s">>,
     <<"p","c">>,
     <<"p","c","s">>,
     <<"p","i","e","c","e">>,
     <<>>,
     <<"b","u","n","c","h">>}

Cased(s) == {s, Upper(s), Capitalised(s)}
Padded(s) == {s, <<" ">> \o s, s \o <<"\t">>, <<" ", " ">> \o s \o <<" ">>}
ParseUnitInputs ==
    UNION {UNION {Padded(c) : c \in Cased(tok)} : tok \in KnownTokens \cup OtherTokens}

ApplyParseUnit ==
    /\ probe.fn = "parseUnit"
    /\ Returns(parseUnit(probe.args))

SpecParseUnit == InitApplying("parseUnit", ParseUnitInputs) /\ [][ApplyParseUnit]_vars

\* the token without regard to letter case and surrounding white space
Canonical(raw) == trim(toLowerCase(raw))

MeasuredUnits == Unit \ {PIECE}
UnitAbbr ==
    [u \in MeasuredUnits |->
        CASE u = KILOGRAM -> <<"k","g">>
          [] u = GRAM -> <<"g">>
          [] u = LITER -> <<"l">>
          [] u = MILLILITER -> <<"m","l">>
          [] u = OUNCE -> <<"o","z">>
          [] u = POUND -> <<"l","b">>]
UnitWord ==
    [u \in MeasuredUnits |->
        CASE u = KILOGRAM -> <<"k","i","l","o","g","r","a","m">>
          [] u = GRAM -> <<"g","r","a","m">>
          [] u = LITER -> <<"l","i","t","e","r">>
          [] u = MILLILITER -> <<"m","i","l","l","i","l","i","t","e","r">>
          [] u = OUNCE -> <<"o","u","n","c","e">>
          [] u = POUND -> <<"p","o","u","n","d">>]

\* the abbreviation of a unit, its word and the plural of the word
ClaimedForms(u) == {UnitAbbr[u], UnitWord[u], UnitWord[u] \o <<"s">>}

NoUnitTokens == {<<>>, <<"b","u","n","c","h">>, <<"p","c">>, <<"p","c","s">>,
                 <<"p","i","e","c","e">>}

\* C6 as stated: parseUnit is total, abbreviations and plural forms of each
\* unit map to that unit whatever the letter case and the surrounding white
\* space, and a token that matches no unit maps to piece
C6_AsStated ==
    Returned("parseUnit") =>
      /\ probe.ret \in Unit
      /\ \A u \in MeasuredUnits :
            Canonical(probe.args) \in ClaimedForms(u) => probe.ret = u
      /\ Canonical(probe.args) \in NoUnitTokens => probe.ret = PIECE

\* the spellings of each unit that are recognised
Recognised ==
    [u \in MeasuredUnits |->
        CASE u = KILOGRAM -> {UnitAbbr[u], UnitWord[u], <<"k","g","s">>}
          [] u = GRAM -> {UnitAbbr[u], UnitWord[u], <<"g","m","s">>}
          [] u = LITER -> {UnitAbbr[u], UnitWord[u], <<"l","i","t","r","e">>}
          [] u = MILLILITER -> {UnitAbbr[u], UnitWord[u]}
          [] u = OUNCE -> {UnitAbbr[u], UnitWord[u]}
          [] u = POUND -> {UnitAbbr[u], UnitWord[u], <<"l","b","s">>}]

\* C6 amended: parseUnit is total and insensitive to letter case and to
\* surrounding white space; kg, kilogram, kgs map to kilogram, g, gram, gms
\* to gram, l, liter, litre to liter, ml, milliliter to milliliter, oz, ounce
\* to ounce, lb, pound, lbs to pound, and every other token, the plural forms
\* grams, kilograms, liters, milliliters, ounces, pounds, gs, ls, mls and ozs
\* included, maps to piece
C6_ParseUnitTable ==
    Returned("parseUnit") =>
      /\ probe.ret \in Unit
      /\ \A u \in MeasuredUnits :
            Canonical(probe.args) \in Recognised[u] => probe.ret = u
      /\ (\A u \in MeasuredUnits : Canonical(probe.args) \notin Recognised[u])
            => probe.ret = PIECE

\* " LBS " in capitals and padded with blanks has been classified as pound
C6_Witness ==
    /\ Returned("parseUnit")
    /\ probe.args = <<" ", " ", "L", "B", "S", " ">>
    /\ probe.ret = POUND


(*** calculateRecipeCost ***)

TotalIngredientCost_PurchaseCost(ings, items) ==
    LET Cost(k) ==
          LET hits == {j \in 1..Len(ings) : ings[j].id = items[k].ingredientId}
          IN  IF hits = {} THEN Num(0)
              ELSE NumMul(items[k].quantity,
                          ings[CHOOSE j \in hits : \A h \in hits : j <= h].purchaseCost)
        Acc[k \in 0..Len(items)] == IF k = 0 THEN Num(0) ELSE NumAdd(Acc[k - 1], Cost(k))
    IN  Acc[Len(items)]

\* recipe.ingredients.forEach(...): totalIngredientCost after the items
RECURSIVE TotalIngredientCost(_, _)
TotalIngredientCost(ings, items) ==
    IF items = <<>> THEN Num(0)
    ELSE LET totalIngredientCost ==
                 TotalIngredientCost(ings, SubSeq(items, 1, Len(items) - 1))
             item == items[Len(items)]
             found == {j \in 1..Len(ings) : ings[j].id = item.ingredientId}
         IN  IF found # {}
             THEN LET ing == ings[CHOOSE j \in found : \A h \in found : j <= h]
                  IN  NumAdd(totalIngredientCost, NumMul(item.quantity, ing.costPerBaseUnit))
             ELSE totalIngredientCost

calculateRecipeCost_OverheadOnLabor(ings, recipe) ==
    LET totalIngredientCost == TotalIngredientCost(ings, recipe.ingredients)
        overheadCost == NumMul(NumAdd(totalIngredientCost, recipe.laborCost),
                               NumDiv(recipe.overheadPercentage, Num(100)))
        totalCost == NumAdd(NumAdd(totalIngredientCost, recipe.laborCost), overheadCost)
        costPerServing == IF NumGt0(recipe.servings)
                          THEN NumDiv(totalCost, recipe.servings) ELSE Num(0)
        ingredientCostPerServing == IF NumGt0(recipe.servings)
                                    THEN NumDiv(totalIngredientCost, recipe.servings)
                                    ELSE Num(0)
        targetDecimal == NumDiv(recipe.targetFoodCostPercentage, Num(100))
        suggestedPrice == IF NumGt0(targetDecimal)
                          THEN NumDiv(ingredientCostPerServing, targetDecimal) ELSE Num(0)
    IN  [totalIngredientCost |-> totalIngredientCost, laborCost |-> recipe.laborCost,
         overheadCost |-> overheadCost, totalCost |-> totalCost,
         costPerServing |-> costPerServing, suggestedPrice |-> suggestedPrice]

calculateRecipeCost_PriceFromTotalCost(ings, recipe) ==
    LET totalIngredientCost == TotalIngredientCost(ings, recipe.ingredients)
        overheadCost == NumMul(totalIngredientCost,
                               NumDiv(recipe.overheadPercentage, Num(100)))
        totalCost == NumAdd(NumAdd(totalIngredientCost, recipe.laborCost), overheadCost)
        costPerServing == IF NumGt0(recipe.servings)
                          THEN NumDiv(totalCost, recipe.servings) ELSE Num(0)
        targetDecimal == NumDiv(recipe.targetFoodCostPercentage, Num(100))
        suggestedPrice == IF NumGt0(targetDecimal)
                          THEN NumDiv(costPerServing, targetDecimal) ELSE Num(0)
    IN  [totalIngredientCost |-> totalIngredientCost, laborCost |-> recipe.laborCost,
         overheadCost |-> overheadCost, totalCost |-> totalCost,
         costPerServing |-> costPerServing, suggestedPrice |-> suggestedPrice]

calculateRecipeCost_TotalWithoutOverhead(ings, recipe) ==
    LET totalIngredientCost == TotalIngredientCost(ings, recipe.ingredients)
        overheadCost == NumMul(totalIngredientCost,
                               NumDiv(recipe.overheadPercentage, Num(100)))
        totalCost == NumAdd(totalIngredientCost, recipe.laborCost)
        costPerServing == IF NumGt0(recipe.servings)
                          THEN NumDiv(totalCost, recipe.servings) ELSE Num(0)
        ingredientCostPerServing == IF NumGt0(recipe.servings)
                                    THEN NumDiv(totalIngredientCost, recipe.servings)
                                    ELSE Num(0)
        targetDecimal == NumDiv(recipe.targetFoodCostPercentage, Num(100))
        suggestedPrice == IF NumGt0(targetDecimal)
                          THEN NumDiv(ingredientCostPerServing, targetDecimal) ELSE Num(0)
    IN  [totalIngredientCost |-> totalIngredientCost, laborCost |-> recipe.laborCost,
         overheadCost |-> overheadCost, totalCost |-> totalCost,
         costPerServing |-> costPerServing, suggestedPrice |-> suggestedPrice]

calculateRecipeCost_PriceTimesTarget(ings, recipe) ==
    LET totalIngredientCost == TotalIngredientCost(ings, recipe.ingredients)
        overheadCost == NumMul(totalIngredientCost,
                               NumDiv(recipe.overheadPercentage, Num(100)))
        totalCost == NumAdd(NumAdd(totalIngredientCost, recipe.laborCost), overheadCost)
        costPerServing == IF NumGt0(recipe.servings)
                          THEN NumDiv(totalCost, recipe.servings) ELSE Num(0)
        ingredientCostPerServing == IF NumGt0(recipe.servings)
                                    THEN NumDiv(totalIngredientCost, recipe.servings)
                                    ELSE Num(0)
        targetDecimal == NumDiv(recipe.targetFoodCostPercentage, Num(100))
        suggestedPrice == IF NumGt0(targetDecimal)
                          THEN NumMul(ingredientCostPerServing, targetDecimal) ELSE Num(0)
    IN  [totalIngredientCost |-> totalIngredientCost, laborCost |-> recipe.laborCost,
         overheadCost |-> overheadCost, totalCost |-> totalCost,
         costPerServing |-> costPerServing, suggestedPrice |-> suggestedPrice]

calculateRecipeCost(ings, recipe) ==
    LET totalIngredientCost == TotalIngredientCost(ings, recipe.ingredients)
        overheadCost == NumMul(totalIngredientCost,
                               NumDiv(recipe.overheadPercentage, Num(100)))
        totalCost == NumAdd(NumAdd(totalIngredientCost, recipe.laborCost), overheadCost)
        costPerServing == IF NumGt0(recipe.servings)
                          THEN NumDiv(totalCost, recipe.servings) ELSE Num(0)
        ingredientCostPerServing == IF NumGt0(recipe.servings)
                                    THEN NumDiv(totalIngredientCost, recipe.servings)
                                    ELSE Num(0)
        targetDecimal == NumDiv(recipe.targetFoodCostPercentage, Num(100))
        suggestedPrice == IF NumGt0(targetDecimal)
                          THEN NumDiv(ingredientCostPerServing, targetDecimal) ELSE Num(0)
    IN  [totalIngredientCost |-> totalIngredientCost, laborCost |-> recipe.laborCost,
         overheadCost |-> overheadCost, totalCost |-> totalCost,
         costPerServing |-> costPerServing, suggestedPrice |-> suggestedPrice]

\* catalogs: the seeded one, a catalog of three recomputed entries, an empty one
CostCatalogs ==
    {SeedIngredients,
     <<[SeedIngredients[1] EXCEPT !.purchaseCost = Num(3000), !.costPerBaseUnit = Num(3)],
       [SeedIngredients[2] EXCEPT !.costPerBaseUnit = Norm(6500, 3)],
       SeedIngredients[3]>>,
     <<>>}

\* ingredient lines; no catalog has an entry with id 9
CostLines ==
    {[ingredientId |-> 1, quantity |-> Num(250), unit |-> GRAM],
     [ingredientId |-> 2, quantity |-> Num(3), unit |-> PIECE],
     [ingredientId |-> 3, quantity |-> Norm(1, 2), unit |-> MILLILITER],
     [ingredientId |-> 9, quantity |-> Num(100), unit |-> GRAM]}

\* number of ingredient lines of a costed recipe
MaxCostLines == 2

CostRecipes ==
    {[id |-> UUID(1), name |-> Soup, description |-> <<>>, servings |-> s,
      ingredients |-> items, laborCost |-> l, overheadPercentage |-> o,
      targetFoodCostPercentage |-> target] :
        target \in {Num(30), Num(0), Num(-5)},
        s \in {Num(0), Num(1), Num(4), Num(-2)},
        items \in SeqsUpTo(CostLines, MaxCostLines),
        l \in {Num(0), Num(500)},
        o \in {Num(0), Num(10), Norm(25, 2)}}

CostInputs == {[ingredients |-> c, recipe |-> r] : c \in CostCatalogs, r \in CostRecipes}

ApplyRecipeCost ==
    /\ probe.fn = "calculateRecipeCost"
    /\ Returns(calculateRecipeCost(probe.args.ingredients, probe.args.recipe))

SpecRecipeCost ==
    InitApplying("calculateRecipeCost", CostInputs) /\ [][ApplyRecipeCost]_vars

\* the cost of one line: quantity times the costPerBaseUnit of the catalog
\* ingredient with that id, 0 when the catalog has none
LineCost(catalog, line) ==
    IF line.ingredientId \in CatalogIds(catalog)
    THEN LET entry == catalog[CHOOSE k \in 1..Len(catalog) :
                                 /\ catalog[k].id = line.ingredientId
                                 /\ \A j \in 1..(k - 1) : catalog[j].id # line.ingredientId]
         IN  NumMul(line.quantity, entry.costPerBaseUnit)
    ELSE Num(0)

RECURSIVE SumOver(_, _)
SumOver(S, f) ==
    IF S = {} THEN Num(0)
    ELSE LET k == CHOOSE x \in S : TRUE IN NumAdd(f[k], SumOver(S \ {k}, f))

\* C9: totalIngredientCost is the sum over the recipe's lines of quantity times
\* the costPerBaseUnit of the catalog ingredient with the line's id, a line
\* whose id has no catalog entry contributing 0; the breakdown is always produced
C9_TotalIngredientCost ==
    Returned("calculateRecipeCost") =>
      LET lines == probe.args.recipe.ingredients
          costs == [k \in 1..Len(lines) |-> LineCost(probe.args.ingredients, lines[k])]
      IN  probe.ret.totalIngredientCost = SumOver(1..Len(lines), costs)

\* 250 g at 18 per gram and a line whose ingredient is in no catalog entry
\* have been costed at 4500
C9_Witness ==
    /\ Returned("calculateRecipeCost")
    /\ probe.args.ingredients = SeedIngredients
    /\ \E k \in 1..Len(probe.args.recipe.ingredients) :
          probe.args.recipe.ingredients[k].ingredientId = 9
    /\ probe.ret.totalIngredientCost = Num(4500)

\* C10: overheadCost = totalIngredientCost * overheadPercentage / 100,
\* totalCost = totalIngredientCost + laborCost + overheadCost, and
\* costPerServing = totalCost / servings when servings > 0, else 0
C10_BreakdownFormulas ==
    Returned("calculateRecipeCost") =>
      LET r == probe.args.recipe
          b == probe.ret
      IN  /\ b.overheadCost =
                NumDiv(NumMul(b.totalIngredientCost, r.overheadPercentage), Num(100))
          /\ b.totalCost = NumAdd(b.totalIngredientCost, NumAdd(r.laborCost, b.overheadCost))
          /\ NumGt0(r.servings) => b.costPerServing = NumDiv(b.totalCost, r.servings)
          /\ ~NumGt0(r.servings) => b.costPerServing = Num(0)

\* a recipe with ingredient cost, labor cost and overhead has been costed for
\* a negative number of servings, giving cost per serving 0
C10_Witness ==
    /\ Returned("calculateRecipeCost")
    /\ probe.args.recipe.servings = Num(-2)
    /\ probe.args.recipe.laborCost = Num(500)
    /\ probe.args.recipe.overheadPercentage = Norm(25, 2)
    /\ NumGt0(probe.ret.overheadCost)
    /\ probe.ret.costPerServing = Num(0)


(*** handleFileUpload ***)

NextImport == setActiveView \/ FileUploadStart \/ FileUploadParsed(Sheets) \/ FileUploadFailed

SpecImport == Init /\ [][NextImport]_vars

NameColumns == <<"Name", "name", "Ingredient", "ingredient", "Item">>
CostColumns == <<"Cost", "cost", "Price", "price">>

\* the first of the columns in which the row has a value, 0 if it has none
Resolved(row, columns) ==
    LET filled == {k \in 1..Len(columns) :
                      columns[k] \in DOMAIN row /\ Truthy(row[columns[k]])}
    IN  IF filled = {} THEN 0 ELSE CHOOSE k \in filled : \A j \in filled : k <= j

\* the row has a resolvable non-empty name and a cost greater than 0
Admissible(row) ==
    /\ Resolved(row, NameColumns) # 0
    /\ Resolved(row, CostColumns) # 0
    /\ NumGt0(parseFloat(row[CostColumns[Resolved(row, CostColumns)]]))

AdmissibleRows(rows) == SelectSeq(rows, Admissible)

\* what the alert tells the user about the number of imported rows
ReportedCount(op) == IF op.alert = "imported" THEN op.count ELSE 0

\* C7: an import of any batch of rows appends one entry for each row with a
\* resolvable non-empty name and a cost greater than 0, in the order of the
\* rows, and nothing for the other rows; the alert reports that number, and
\* "No valid ingredients found" when it is 0
C7_ImportAdmits ==
    [][lastOp'.op = "import" =>
         LET admitted == AdmissibleRows(lastOp'.rows)
             n == Len(admitted)
         IN  /\ Len(ingredients') = Len(ingredients) + n
             /\ SubSeq(ingredients', 1, Len(ingredients)) = ingredients
             /\ \A k \in 1..n :
                   LET row == admitted[k]
                       entry == ingredients'[Len(ingredients) + k]
                   IN  /\ entry.name = String(row[NameColumns[Resolved(row, NameColumns)]])
                       /\ entry.purchaseCost =
                            parseFloat(row[CostColumns[Resolved(row, CostColumns)]])
             /\ ReportedCount(lastOp') = n
             /\ (lastOp'.alert = "imported") = (n > 0)]_vars

\* three rows of which the second has cost 0 have been imported into the
\* seeded catalog: two entries were added and the alert reported 2
C7_Witness ==
    /\ lastOp.op = "import"
    /\ lastOp.rows = <<RowGood, RowCostZero, RowPriceText>>
    /\ lastOp.alert = "imported"
    /\ lastOp.count = 2
    /\ Len(ingredients) = Len(SeedIngredients) + 2

(*** handleBulkAddIngredients ***)

BulkCatalogs == {<<>>, SubSeq(SeedIngredients, 1, 2), SeedIngredients}

\* the lists an import hands over, and the empty list
BulkLists == {ParseRows(sheet, [k \in 1..MaxRows |-> UUID(k)]) : sheet \in Sheets}

BulkInputs == {[prev |-> c, newIngredients |-> l] : c \in BulkCatalogs, l \in BulkLists}

ApplyBulkAdd ==
    /\ probe.fn = "handleBulkAddIngredients"
    /\ Returns(handleBulkAddIngredients(probe.args.prev, probe.args.newIngredients))

SpecBulkAdd == InitApplying("handleBulkAddIngredients", BulkInputs) /\ [][ApplyBulkAdd]_vars

\* the catalog after handleAddIngredient has been applied to each element in order
RECURSIVE RepeatedAdd(_, _)
RepeatedAdd(prev, list) ==
    IF list = <<>> THEN prev
    ELSE RepeatedAdd(handleAddIngredient(prev, Head(list)), Tail(list))

\* C8: for every catalog and every list, the catalog after the bulk add is
\* the catalog after adding the elements of the list one by one in order
C8_BulkAddIsRepeatedAdd ==
    Returned("handleBulkAddIngredients") =>
      probe.ret = RepeatedAdd(probe.args.prev, probe.args.newIngredients)

\* a list of two different ingredients has been bulk-added to the seeded catalog
C8_Witness ==
    /\ Returned("handleBulkAddIngredients")
    /\ probe.args.prev = SeedIngredients
    /\ Len(probe.args.newIngredients) = 2
    /\ probe.args.newIngredients[1].name # probe.args.newIngredients[2].name
    /\ Len(probe.ret) = Len(SeedIngredients) + 2

(*** the catalog and the saved recipes ***)

\* the ids the lines of the saved recipes reference
ReferencedIds == UNION {LineIds(recipes[k]) : k \in 1..Len(recipes)}

\* C1: a delete of an ingredient that a line of a saved recipe references
\* leaves the catalog exactly as it was
C1_DeleteReferencedRefused ==
    [][(lastOp'.op = "onDeleteIngredient" /\ lastOp'.id \in ReferencedIds)
         => ingredients' = ingredients]_vars

\* the delete button of a catalog ingredient used by a saved recipe has been clicked
C1_Witness ==
    /\ lastOp.op = "onDeleteIngredient"
    /\ lastOp.id \in ReferencedIds
    /\ lastOp.id \in CatalogIds(ingredients)

\* C2: in every reachable state every line of every saved recipe references
\* the id of an ingredient of the catalog
C2_ReferentialIntegrity == ReferencedIds \subseteq CatalogIds(ingredients)

\* a recipe with an ingredient line is saved and the first seeded ingredient
\* has been deleted from the catalog
C2_Witness ==
    /\ ReferencedIds # {}
    /\ SeedIngredients[1].id \notin CatalogIds(ingredients)

\* C3: after an update the stored entry's costPerBaseUnit is the normalizer's
\* result for the purchase unit, cost and quantity of the ingredient given,
\* whatever derived value came with it
C3_UpdateRecomputes ==
    lastOp.op = "onUpdateIngredient" =>
      \A k \in 1..Len(ingredients) :
         ingredients[k].id = lastOp.id =>
           /\ ingredients[k].purchaseCost = lastOp.form.purchaseCost
           /\ ingredients[k].costPerBaseUnit =
                calculateBaseCost(lastOp.form.purchaseUnit, lastOp.form.purchaseCost,
                                  lastOp.form.purchaseQuantity)

\* an ingredient has been updated from a form that carried a derived value
\* other than the one its purchase fields give
C3_Witness ==
    /\ lastOp.op = "onUpdateIngredient"
    /\ "costPerBaseUnit" \in DOMAIN lastOp.form
    /\ lastOp.form.costPerBaseUnit #
         calculateBaseCost(lastOp.form.purchaseUnit, lastOp.form.purchaseCost,
                           lastOp.form.purchaseQuantity)
    /\ \E k \in 1..Len(ingredients) : ingredients[k].id = lastOp.id

\* C4: in every reachable state, the initial one included, the costPerBaseUnit
\* of each catalog ingredient is the normalizer's result for its own purchase
\* unit, purchase cost and purchase quantity
C4_DerivedInStep ==
    \A k \in 1..Len(ingredients) :
       ingredients[k].costPerBaseUnit =
         calculateBaseCost(ingredients[k].purchaseUnit, ingredients[k].purchaseCost,
                           ingredients[k].purchaseQuantity)

(*** calculateRecipeCost: the suggested price ***)

\* C11: suggestedPrice is (totalIngredientCost / servings) / (target / 100)
\* when servings > 0 and the target percentage > 0, and 0 when either is not
\* > 0; labor cost and overhead do not enter it
C11_SuggestedPrice ==
    Returned("calculateRecipeCost") =>
      LET r == probe.args.recipe
          b == probe.ret
      IN  IF NumGt0(r.servings) /\ NumGt0(r.targetFoodCostPercentage)
          THEN b.suggestedPrice =
                 NumDiv(NumDiv(b.totalIngredientCost, r.servings),
                        NumDiv(r.targetFoodCostPercentage, Num(100)))
          ELSE b.suggestedPrice = Num(0)

\* 250 g at 18 per gram, 1 serving, target 30 %, with labor cost and overhead,
\* has been priced at 15000
C11_Witness ==
    /\ Returned("calculateRecipeCost")
    /\ probe.args.ingredients = SeedIngredients
    /\ probe.args.recipe.ingredients =
         <<[ingredientId |-> 1, quantity |-> Num(250), unit |-> GRAM]>>
    /\ probe.args.recipe.servings = Num(1)
    /\ probe.args.recipe.targetFoodCostPercentage = Num(30)
    /\ probe.args.recipe.laborCost = Num(500)
    /\ NumGt0(probe.ret.overheadCost)
    /\ probe.ret.suggestedPrice = Num(15000)

(*** Dashboard: stats ***)

\* x - y
NumSub(x, y) == NumAdd(x, NumMul(Num(-1), y))

\* costs.actualPrice ? ((costs.actualPrice - costs.totalCost) / costs.actualPrice) * 100 : 0
Margin(costs) ==
    IF "actualPrice" \in DOMAIN costs /\ NumTruthy(costs.actualPrice)
    THEN NumMul(NumDiv(NumSub(costs.actualPrice, costs.totalCost), costs.actualPrice),
                Num(100))
    ELSE Num(0)

FcPercent(costs) ==
    IF "actualPrice" \in DOMAIN costs /\ NumTruthy(costs.actualPrice)
    THEN NumMul(NumDiv(costs.totalIngredientCost, costs.actualPrice), Num(100))
    ELSE NumMul(NumDiv(costs.totalIngredientCost, costs.suggestedPrice), Num(100))

\* Number.prototype.toFixed(1): one decimal, ties away from zero
toFixed1(x) ==
    IF IsNaN(x) THEN <<"N","a","N">>
    ELSE IF ~IsFinite(x)
    THEN (IF x[1] < 0 THEN <<"-">> ELSE <<>>) \o <<"I","n","f","i","n","i","t","y">>
    ELSE LET tenths == (20 * Abs(x[1]) + x[2]) \div (2 * x[2])
         IN  (IF x[1] < 0 THEN <<"-">> ELSE <<>>)
             \o NatToString(tenths \div 10) \o <<".">> \o NatToString(tenths % 10)

\* the useMemo of stats: the counters after recipes.forEach, with the costs,
\* margin and fcPercent each iteration computed
Stats(recs, ings) ==
    LET costs == [k \in 1..Len(recs) |-> calculateRecipeCost(ings, recs[k])]
        margin == [k \in 1..Len(recs) |-> Margin(costs[k])]
        fcPercent == [k \in 1..Len(recs) |-> FcPercent(costs[k])]
        totalMenuRecipes == Len(recs)
        Sum[k \in 0..Len(recs)] ==
            IF k = 0 THEN Num(0) ELSE NumAdd(Sum[k - 1], fcPercent[k])
        avgFoodCostPercent == Sum[Len(recs)]
        warnings == Cardinality({k \in 1..Len(recs) :
                                    NumGt(fcPercent[k], recs[k].targetFoodCostPercentage)})
        profitableCount == Cardinality({k \in 1..Len(recs) : NumGt(margin[k], Num(20))})
    IN  [totalMenuRecipes |-> totalMenuRecipes,
         avgFoodCostPercent |->
             IF totalMenuRecipes # 0
             THEN toFixed1(NumDiv(avgFoodCostPercent, Num(totalMenuRecipes)))
             ELSE <<"0">>,
         warnings |-> warnings,
         profitableCount |-> profitableCount,
         costs |-> costs, margin |-> margin, fcPercent |-> fcPercent]

\* number of saved recipes the dashboard is given
MaxDashRecipes == 2

\* the recipes a dashboard shows, saved under different ids
DashRecipes ==
    {r \in CostRecipes :
        /\ Len(r.ingredients) <= 1
        /\ \A k \in 1..Len(r.ingredients) : r.ingredients[k].ingredientId # 3
        /\ r.laborCost = Num(500)
        /\ r.overheadPercentage = Num(10)
        /\ r.servings # Num(-2)
        /\ r.targetFoodCostPercentage # Num(-5)}

DashInputs ==
    {[recipes |-> [k \in 1..Len(s) |-> [s[k] EXCEPT !.id = UUID(k)]], ingredients |-> c] :
        s \in SeqsUpTo(DashRecipes, MaxDashRecipes), c \in {SeedIngredients, <<>>}}

ApplyStats ==
    /\ probe.fn = "stats"
    /\ Returns(Stats(probe.args.recipes, probe.args.ingredients))

SpecDashboard == InitApplying("stats", DashInputs) /\ [][ApplyStats]_vars

\* C12: the margin of a recipe is (actualPrice - totalCost) / actualPrice * 100
\* when its cost breakdown has an actual price, and is undefined, not a
\* number, when it has none
C12_MarginAsStated ==
    Returned("stats") =>
      \A k \in 1..Len(probe.args.recipes) :
         LET costs == probe.ret.costs[k]
         IN  IF "actualPrice" \in DOMAIN costs
             THEN probe.ret.margin[k] =
                    NumMul(NumDiv(NumSub(costs.actualPrice, costs.totalCost),
                                  costs.actualPrice), Num(100))
             ELSE probe.ret.margin[k] = Undefined

(*** calculateRecipeCost applied to two recipes that differ in one percentage ***)

PairPercentages == {Num(-5), Num(0), Num(10), Norm(25, 2), Num(30), Num(60)}

\* a catalog, a recipe, and the recipe with a greater overhead or target percentage
CostPairs ==
    {[ingredients |-> c,
      recipe |-> [x[1] EXCEPT ![x[2]] = x[3]],
      other |-> [x[1] EXCEPT ![x[2]] = x[4]]] :
        c \in CostCatalogs,
        x \in {y \in {r \in CostRecipes : /\ r.overheadPercentage = Num(10)
                                          /\ r.targetFoodCostPercentage = Num(30)}
                     \X {"overheadPercentage", "targetFoodCostPercentage"}
                     \X PairPercentages \X PairPercentages : NumGt(y[4], y[3])}}

ApplyRecipeCostTwice ==
    /\ probe.fn = "calculateRecipeCost twice"
    /\ Returns(<<calculateRecipeCost(probe.args.ingredients, probe.args.recipe),
                 calculateRecipeCost(probe.args.ingredients, probe.args.other)>>)

SpecRecipeCostTwice ==
    InitApplying("calculateRecipeCost twice", CostPairs) /\ [][ApplyRecipeCostTwice]_vars

\* the two recipes costed differ in the overhead percentage only, the second
\* having the greater one
OverheadRaised ==
    /\ Returned("calculateRecipeCost twice")
    /\ probe.args.other =
         [probe.args.recipe EXCEPT !.overheadPercentage = probe.args.other.overheadPercentage]
    /\ NumGt(probe.args.other.overheadPercentage, probe.args.recipe.overheadPercentage)

\* C13: for a fixed recipe and catalog with totalIngredientCost > 0, a greater
\* overhead percentage gives a strictly greater overheadCost and totalCost
C13_OverheadMonotonic ==
    (OverheadRaised /\ NumGt0(probe.ret[1].totalIngredientCost)) =>
      /\ NumGt(probe.ret[2].overheadCost, probe.ret[1].overheadCost)
      /\ NumGt(probe.ret[2].totalCost, probe.ret[1].totalCost)

\* 250 g at 18 per gram with labor cost 500 has been costed at 10 % and at
\* 12.5 % overhead: overhead 450 and 562.5
C13_Witness ==
    /\ OverheadRaised
    /\ probe.args.recipe.laborCost = Num(500)
    /\ probe.ret[1].overheadCost = Num(450)
    /\ probe.ret[2].overheadCost = Norm(1125, 2)
    /\ NumGt(probe.ret[2].totalCost, probe.ret[1].totalCost)

\* the two recipes costed differ in the target percentage only, the second
\* having the greater one, and their ingredient cost per serving is > 0
TargetRaised ==
    /\ Returned("calculateRecipeCost twice")
    /\ probe.args.other =
         [probe.args.recipe EXCEPT
             !.targetFoodCostPercentage = probe.args.other.targetFoodCostPercentage]
    /\ NumGt(probe.args.other.targetFoodCostPercentage,
             probe.args.recipe.targetFoodCostPercentage)
    /\ NumGt0(probe.args.recipe.servings)
    /\ NumGt0(NumDiv(probe.ret[1].totalIngredientCost, probe.args.recipe.servings))

\* C14 as stated: for a fixed ingredient cost per serving > 0, any two target
\* percentages t1 < t2 give suggestedPrice(t1) > suggestedPrice(t2)
C14_AsStated ==
    TargetRaised => NumGt(probe.ret[1].suggestedPrice, probe.ret[2].suggestedPrice)

\* C14: for a fixed ingredient cost per serving > 0, any two target
\* percentages 0 < t1 < t2 give suggestedPrice(t1) > suggestedPrice(t2); a
\* target that is not > 0 gives the price 0, below every price of a target > 0
C14_PriceDecreasing ==
    TargetRaised =>
      IF NumGt0(probe.args.recipe.targetFoodCostPercentage)
      THEN NumGt(probe.ret[1].suggestedPrice, probe.ret[2].suggestedPrice)
      ELSE /\ probe.ret[1].suggestedPrice = Num(0)
           /\ ~NumGt(probe.ret[1].suggestedPrice, probe.ret[2].suggestedPrice)

\* 250 g at 18 per gram, 1 serving, has been priced at targets 30 % and 60 %:
\* 15000 and 7500
C14_Witness ==
    /\ TargetRaised
    /\ probe.args.recipe.targetFoodCostPercentage = Num(30)
    /\ probe.args.other.targetFoodCostPercentage = Num(60)
    /\ probe.ret[1].suggestedPrice = Num(15000)
    /\ probe.ret[2].suggestedPrice = Num(7500)

(*** handleGenerateAI: the drafts ***)

\* suggestions of a generated draft; the catalog has 'All-Purpose Flour',
\* 'Eggs (Large Tray)', 'Fresh Milk' and 'Tomatoes', and no 'Flour',
\* 'Fresh Milk Powder' or 'Saffron'
SugFlour == [name |-> Str(LowerFlour), quantity |-> Norm(1, 2), unit |-> "kg"]
SugEggs == [name |-> Str(Upper(Eggs)), quantity |-> Num(3), unit |-> "pc"]
SugMilk == [name |-> Str(Milk), quantity |-> Num(2), unit |-> "l"]
SugTomatoes == [name |-> Str(Tomatoes), quantity |-> Num(2), unit |-> "Kg"]
SugPartOfName == [name |-> Str(<<"F","l","o","u","r">>), quantity |-> Num(100), unit |-> "g"]
SugLongerName == [name |-> Str(Milk \o <<" ","P","o","w","d","e","r">>),
                  quantity |-> Num(50), unit |-> "g"]
SugSaffron == [name |-> Str(Saffron), quantity |-> Num(1), unit |-> "g"]
SugNameless == [quantity |-> Num(1), unit |-> "g"]
Suggestions == {SugFlour, SugEggs, SugMilk, SugTomatoes, SugPartOfName, SugLongerName,
                SugSaffron, SugNameless}

\* number of suggestions in a draft's ingredient list
MaxSuggestions == 2

\* drafts with a list of suggestions
ListDrafts ==
    {[description |-> Str(Tasty), ingredients |-> [t |-> "array", v |-> list]] :
        list \in SeqsUpTo(Suggestions, MaxSuggestions)}

\* drafts in which description, instructions and servings are missing, empty, 0 or set
FieldDrafts ==
    {[k \in {j \in DOMAIN d : d[j] # Undef} |-> d[k]] :
        d \in [description : {Undef, Str(<<>>), Str(Tasty)},
               instructions : {Undef, Str(<<>>), Str(Tasty)},
               servings : {Undef, Number(Num(0)), Number(Num(2))},
               ingredients : {Undef, [t |-> "array", v |-> <<SugSaffron, SugEggs>>]}]}

\* a draft whose ingredients field is not a list
DraftNoList == [description |-> Str(Tasty), ingredients |-> Str(Flour)]

AutoFillDrafts == ListDrafts \cup FieldDrafts \cup {DraftNoList}

NextAutoFill ==
    \/ setActiveView \/ handleCreateNew \/ addIngredientToRecipe
    \/ GenerateAIStart \/ GenerateAIResolved(AutoFillDrafts) \/ GenerateAIRejected

SpecAutoFill == Init /\ [][NextAutoFill]_vars

\* the suggestions of a draft
SuggestionsOf(draft) ==
    IF "ingredients" \in DOMAIN draft /\ draft.ingredients.t = "array"
    THEN draft.ingredients.v ELSE <<>>

\* the catalog entries whose name equals the suggestion's after lower-casing both
Matching(catalog, s) ==
    IF "name" \in DOMAIN s /\ s.name.t = "string"
    THEN {k \in 1..Len(catalog) : toLowerCase(catalog[k].name) = toLowerCase(s.name.v)}
    ELSE {}

\* the suggestions that have a catalog entry of the same name, in their order
Matched(catalog, suggestions) ==
    SelectSeq(suggestions, LAMBDA s : Matching(catalog, s) # {})

\* C15: a suggestion gets a line exactly when a catalog name equals its name
\* after lower-casing both: the merged lines are one per such suggestion, in
\* order, each with the id of a catalog ingredient of that name; a suggestion
\* whose name is only part of, or contains, a catalog name gets none
C15_ExactNameMatch ==
    [][(lastOp'.op = "generateAIDone" /\ lastOp'.alert = "none") =>
         \A m \in {Matched(ingredients, SuggestionsOf(lastOp'.draft))} :
            m # <<>> =>
              /\ Len(activeRecipe'.ingredients) = Len(m)
              /\ \A k \in 1..Len(m) :
                    \E j \in Matching(ingredients, m[k]) :
                       activeRecipe'.ingredients[k].ingredientId = ingredients[j].id]_vars

\* a draft suggesting 'Flour' and 'all-purpose flour' has been merged: the
\* only line is the one of 'All-Purpose Flour'
C15_Witness ==
    /\ lastOp.op = "generateAIDone"
    /\ lastOp.alert = "none"
    /\ SuggestionsOf(lastOp.draft) = <<SugPartOfName, SugFlour>>
    /\ Len(activeRecipe.ingredients) = 1
    /\ activeRecipe.ingredients[1].ingredientId = SeedIngredients[1].id

\* C16: the line of a matched suggestion carries the suggested quantity times
\* 1000 when the suggestion's unit is kg or l and the quantity unchanged for
\* every other unit, with the suggestion's own unit label
C16_QuantityRebased ==
    [][(lastOp'.op = "generateAIDone" /\ lastOp'.alert = "none") =>
         \A m \in {Matched(ingredients, SuggestionsOf(lastOp'.draft))} :
            \A k \in 1..Len(m) :
               /\ activeRecipe'.ingredients[k].unit = m[k].unit
               /\ activeRecipe'.ingredients[k].quantity =
                    IF m[k].unit \in {"kg", "l"}
                    THEN NumMul(m[k].quantity, Num(1000))
                    ELSE m[k].quantity]_vars

\* 0.5 kg of flour and 2 Kg of tomatoes have been merged as 500 and 2
C16_Witness ==
    /\ lastOp.op = "generateAIDone"
    /\ lastOp.alert = "none"
    /\ SuggestionsOf(lastOp.draft) = <<SugFlour, SugTomatoes>>
    /\ activeRecipe.ingredients =
         <<[ingredientId |-> 1, quantity |-> Num(500), unit |-> "kg"],
           [ingredientId |-> 6, quantity |-> Num(2), unit |-> "Kg"]>>

\* every suggestion of the draft has a name, and the ingredients field, if
\* there is one, is a list
WellFormed(draft) ==
    /\ "ingredients" \in DOMAIN draft => draft.ingredients.t = "array"
    /\ \A k \in 1..Len(SuggestionsOf(draft)) :
          /\ "name" \in DOMAIN SuggestionsOf(draft)[k]
          /\ SuggestionsOf(draft)[k].name.t = "string"

\* C17: an answered auto-fill leaves the catalog and the saved recipes as
\* they were; a suggestion with no catalog entry of its name raises no error
\* and gets no line, and the suggestions after it still get theirs
C17_ReconcileFrame ==
    [][lastOp'.op = "generateAIDone" =>
         /\ ingredients' = ingredients
         /\ recipes' = recipes
         /\ "draft" \in DOMAIN lastOp' =>
              \A draft \in {lastOp'.draft} :
                 WellFormed(draft) =>
                   /\ lastOp'.alert = "none"
                   /\ \A m \in {Matched(ingredients, SuggestionsOf(draft))} :
                         m # <<>> => Len(activeRecipe'.ingredients) = Len(m)]_vars

\* with a recipe saved, a draft suggesting 'Saffron' and then 'all-purpose
\* flour' has been merged without an alert: the only line is the flour's
C17_Witness ==
    /\ lastOp.op = "generateAIDone"
    /\ lastOp.alert = "none"
    /\ lastOp.draft = DraftMatched
    /\ recipes # <<>>
    /\ activeRecipe.ingredients =
         <<[ingredientId |-> 1, quantity |-> Num(500), unit |-> "kg"]>>

\* the draft supplies a truthy value for the field
Supplies(draft, field) ==
    /\ field \in DOMAIN draft
    /\ \/ draft[field].t = "string" /\ draft[field].v # <<>>
       \/ draft[field].t = "number" /\ draft[field].v \notin {Num(0), NaN}

\* C18: a merge gives description, instructions and servings the draft's
\* value when that value is truthy and leaves the recipe's own value when it
\* is missing, empty or 0; id, name, laborCost, overheadPercentage and
\* targetFoodCostPercentage are not changed
C18_MergePolicy ==
    [][(lastOp'.op = "generateAIDone" /\ lastOp'.alert = "none") =>
         /\ \A field \in {"description", "instructions", "servings"} :
               Field(activeRecipe', field) =
                 IF Supplies(lastOp'.draft, field) THEN lastOp'.draft[field].v
                 ELSE Field(activeRecipe, field)
         /\ \A field \in {"id", "name", "laborCost", "overheadPercentage",
                          "targetFoodCostPercentage"} :
               activeRecipe'[field] = activeRecipe[field]]_vars

\* a draft with an empty description, servings 0 and instructions has been
\* merged into a recipe that had a description: description and servings are
\* the recipe's, the instructions the draft's
C18_Witness ==
    /\ lastOp.op = "generateAIDone"
    /\ lastOp.alert = "none"
    /\ Field(lastOp.draft, "description") = Str(<<>>)
    /\ Field(lastOp.draft, "servings") = Number(Num(0))
    /\ Field(lastOp.draft, "instructions") = Str(Tasty)
    /\ activeRecipe.description = Tasty
    /\ activeRecipe.servings = Num(4)
    /\ activeRecipe.instructions = Tasty

\* C19: a merge replaces the recipe's ingredient list only when at least one
\* suggestion matched a catalog ingredient; with no list, an empty list or
\* only unmatched suggestions the list stays as it was, so a non-empty list
\* never becomes empty
C19_ListKeptUnlessMatched ==
    [][(lastOp'.op = "generateAIDone" /\ lastOp'.alert = "none") =>
         /\ Matched(ingredients, SuggestionsOf(lastOp'.draft)) = <<>>
              => activeRecipe'.ingredients = activeRecipe.ingredients
         /\ activeRecipe.ingredients # <<>> => activeRecipe'.ingredients # <<>>]_vars

\* a draft with only unmatched suggestions has been merged into a recipe
\* with an ingredient line, which is still there
C19_Witness ==
    /\ lastOp.op = "generateAIDone"
    /\ lastOp.alert = "none"
    /\ SuggestionsOf(lastOp.draft) = <<SugSaffron, SugPartOfName>>
    /\ activeRecipe.ingredients =
         <<[ingredientId |-> 1, quantity |-> Num(100), unit |-> GRAM]>>

FormEdits ==
    {[name |-> <<>>], [name |-> Salt],
     [purchaseQuantity |-> NaN], [purchaseQuantity |-> Num(0)],
     [purchaseQuantity |-> Num(2)],
     [purchaseCost |-> NaN], [purchaseCost |-> Num(0)], [purchaseCost |-> Num(3000)]}

FormInput == \E upd \in FormEdits : SetNewIng(upd)

NextForm == setActiveView \/ FormInput \/ startEdit \/ CancelEdit \/ handleSave

SpecForm == Init /\ [][NextForm]_vars

\* the form has a name, a cost that is a number and a quantity that is one
Complete(form) ==
    /\ form.name # <<>>
    /\ "purchaseCost" \in DOMAIN form /\ ~IsNaN(form.purchaseCost)
    /\ "purchaseQuantity" \in DOMAIN form /\ ~IsNaN(form.purchaseQuantity)

\* C21: Save on a form whose name, cost or quantity is missing writes
\* nothing and leaves the catalog as it was; only a form with a name, a
\* numeric cost and a quantity is written
C21_WriteNeedsFields ==
    [][(lastOp'.op \in {"handleSave", "onAddIngredient", "onUpdateIngredient"}
        /\ ~Complete(newIng))
         => lastOp'.written = FALSE /\ ingredients' = ingredients]_vars

\* C22: no catalog operation (add, update or rejected Save of the form, the
\* bulk add of an import, delete whether carried out or refused) changes the
\* saved recipes
C22_CatalogOpsKeepRecipes ==
    [][lastOp'.op \in {"handleSave", "onAddIngredient", "onUpdateIngredient",
                       "onDeleteIngredient", "import"}
         => recipes' = recipes]_vars

\* with a recipe saved, an ingredient has been deleted from the catalog
C22_Witness ==
    /\ lastOp.op = "onDeleteIngredient"
    /\ lastOp.id \notin CatalogIds(ingredients)
    /\ recipes # <<>>

(*** the application started with recipes in localStorage ***)

\* recipes saved in an earlier session (useLocalStorage('recipes', []))
StoredSoup ==
    Spread(emptyRecipe,
           [id |-> 7, name |-> Soup,
            ingredients |-> <<[ingredientId |-> 1, quantity |-> Num(250), unit |-> GRAM]>>])
StoredOmelette ==
    Spread(emptyRecipe,
           [id |-> 8, name |-> Eggs,
            ingredients |-> <<[ingredientId |-> 2, quantity |-> Num(3), unit |-> PIECE]>>])
StoredBread ==
    Spread(emptyRecipe,
           [id |-> 9, name |-> Flour,
            ingredients |-> <<[ingredientId |-> 1, quantity |-> Num(500), unit |-> GRAM]>>])
StoredRecipes == {<<>>, <<StoredSoup>>, <<StoredSoup, StoredOmelette>>}

\* the application as constructed, the recipes read from localStorage
InitWith(stored) ==
    /\ ingredients = SeedIngredients
    /\ recipes \in stored
    /\ activeView = "dashboard"
    /\ isEditing = NoId
    /\ newIng = BlankIng
    /\ isImporting = FALSE
    /\ uploads = 0
    /\ view = "list"
    /\ activeRecipe = NULL
    /\ aiLoading = FALSE
    /\ aiRequest = NULL
    /\ ops = 0
    /\ lastOp = NoOp
    /\ probe = Idle
    /\ aiOrphans = 0
    /\ aiAnalysis = ""
    /\ aiAnalysisLoading = FALSE

InitStored == InitWith(StoredRecipes)

NextStored ==
    \/ setActiveView
    \/ onDeleteIngredient
    \/ handleCreateNew \/ handleEdit \/ BackToList
    \/ RecipeNameChange
    \/ addIngredientToRecipe \/ updateRecipeIngredient \/ removeRecipeIngredient
    \/ SaveRecipe \/ onDeleteRecipe
    \/ GenerateAIStart \/ GenerateAIResolved(AppDrafts) \/ GenerateAIRejected

SpecStored == InitStored /\ [][NextStored]_vars

\* after is before with the entry of recipe's id replaced by recipe, or with
\* recipe appended when before has no entry of that id
SavedAs(before, recipe, after) ==
    IF \E k \in 1..Len(before) : before[k].id = recipe.id
    THEN /\ Len(after) = Len(before)
         /\ \A k \in 1..Len(before) :
               after[k] = IF before[k].id = recipe.id THEN recipe ELSE before[k]
    ELSE /\ Len(after) = Len(before) + 1
         /\ after[Len(after)] = recipe
         /\ \A k \in 1..Len(before) : after[k] = before[k]

\* C23: no step other than Save Recipe (and the delete button of the list)
\* changes the saved recipes, whatever the editor or an auto-fill does to
\* the recipe being edited; Save replaces the saved recipe of the same id or
\* appends, and leaves every other saved recipe as it was
C23_PersistedOnSaveOnly ==
    [][/\ lastOp'.op \notin {"onSaveRecipe", "onDeleteRecipe"} => recipes' = recipes
       /\ lastOp'.op = "onSaveRecipe" => SavedAs(recipes, activeRecipe, recipes')]_vars

\* of two stored recipes the first has been edited (its line removed) and
\* saved: it is replaced in place, the second is as stored
C23_Witness ==
    /\ lastOp.op = "onSaveRecipe"
    /\ lastOp.id = 7
    /\ Len(recipes) = 2
    /\ recipes[1] = Spread(StoredSoup, [ingredients |-> <<>>])
    /\ recipes[2] = StoredOmelette

(*** quantities of ingredient lines ***)

\* Number(e.target.value) of the quantity input of a line, an input of
\* type number without a min: a cleared field gives 0
TypedQuantities == {Num(0), Num(250), Num(-5)}

\* onChange of the quantity input: updateRecipeIngredient(idx, 'quantity', v)
QuantityInput ==
    /\ EditView
    /\ \E index \in 1..Len(activeRecipe.ingredients), v \in TypedQuantities :
          LET newItems == [activeRecipe.ingredients EXCEPT
                              ![index] = Spread(activeRecipe.ingredients[index],
                                                [quantity |-> v])]
          IN  SetActiveRecipe([ingredients |-> newItems])

\* a response whose suggestion has a negative quantity (the response schema
\* types quantity as NUMBER and sets no minimum)
DraftNegative ==
    [ingredients |-> [t |-> "array",
                      v |-> <<[name |-> Str(LowerFlour), quantity |-> Num(-1),
                               unit |-> "kg"]>>]]

NextQuantity ==
    \/ setActiveView \/ handleCreateNew \/ handleEdit \/ BackToList
    \/ addIngredientToRecipe \/ QuantityInput \/ removeRecipeIngredient \/ SaveRecipe
    \/ GenerateAIStart \/ GenerateAIResolved({DraftMatched, DraftNegative})
    \/ GenerateAIRejected

SpecQuantity == Init /\ [][NextQuantity]_vars

\* C24: every ingredient line of the recipe being edited and of every saved
\* recipe has a quantity of 0 or more
C24_QuantitiesNonNegative ==
    /\ activeRecipe # NULL =>
         \A k \in 1..Len(activeRecipe.ingredients) :
            ~NumGt(Num(0), activeRecipe.ingredients[k].quantity)
    /\ \A r \in 1..Len(recipes) :
         \A k \in 1..Len(recipes[r].ingredients) :
            ~NumGt(Num(0), recipes[r].ingredients[k].quantity)

(*** draft requests in flight ***)

\* number of suspended handleGenerateAI calls of unmounted RecipeManagers
MaxOrphans == 1

\* the sidebar buttons, the suspended handleGenerateAI call of the
\* RecipeManager that unmounts counted: unmounting does not cancel the
\* request, whose await is still pending
setActiveViewInFlight ==
    /\ aiRequest # NULL => aiOrphans < MaxOrphans
    /\ \E v \in {"dashboard", "ingredients", "recipes"} :
          /\ v # activeView
          /\ activeView' = v
    /\ IngredientManagerMount
    /\ RecipeManagerMount
    /\ aiOrphans' = aiOrphans + (IF aiRequest # NULL THEN 1 ELSE 0)
    /\ lastOp' = NoOp
    /\ UNCHANGED <<ingredients, recipes, uploads, ops, probe>>

\* the request of an unmounted RecipeManager completes or fails: its
\* setActiveRecipe and setAiLoading calls reach no mounted component
GenerateAIOrphanSettled ==
    /\ aiOrphans > 0
    /\ aiOrphans' = aiOrphans - 1
    /\ lastOp' = NoOp
    /\ UNCHANGED <<ingredients, recipes, activeView, isEditing, newIng, isImporting,
                   uploads, view, activeRecipe, aiLoading, aiRequest, ops, probe,
                   aiAnalysis, aiAnalysisLoading>>

NextInFlight ==
    \/ setActiveViewInFlight
    \/ handleCreateNew \/ handleEdit \/ BackToList
    \/ RecipeNameChange \/ addIngredientToRecipe \/ SaveRecipe
    \/ GenerateAIStart \/ GenerateAIResolved(AppDrafts) \/ GenerateAIRejected
    \/ GenerateAIOrphanSettled

SpecInFlight == Init /\ [][NextInFlight]_vars

\* generateRecipeDraft calls that have been started and have not completed
InFlight == aiOrphans + (IF aiRequest # NULL THEN 1 ELSE 0)

\* C25: at most one draft request is in flight at any time, and a request
\* in flight was started for a recipe with a name
C25_SingleInFlight ==
    /\ InFlight <= 1
    /\ aiRequest # NULL => aiRequest.name # <<>>

\* C26: a response changes the description, instructions, servings and
\* ingredient list only of the recipe the request was started for; when
\* another recipe is in the editor by then, these four fields of it stay as
\* they were
C26_MergedIntoRequestedOnly ==
    [][(lastOp'.op = "generateAIDone" /\ activeRecipe # NULL
        /\ activeRecipe.id # aiRequest.recipe)
         => \A field \in {"description", "instructions", "servings", "ingredients"} :
               Field(activeRecipe', field) = Field(activeRecipe, field)]_vars

(*** the loading flags of the asynchronous actions ***)

\* how the generateContent call of analyzeProfitability ends
AnalysisOutcomes ==
    {[ok |-> TRUE, text |-> "Healthy margin."], [ok |-> TRUE, text |-> ""],
     [ok |-> FALSE]}

\* what analyzeProfitability returns: response.text, or the text of its catch
analyzeProfitability(outcome) ==
    IF outcome.ok THEN outcome.text ELSE "Could not generate analysis at this time."

\* handleAnalyzeProfit up to await analyzeProfitability(...); the button is
\* rendered while aiAnalysis is '' and disabled while aiAnalysisLoading
AnalyzeProfitStart ==
    /\ EditView
    /\ aiAnalysis = ""
    /\ ~aiAnalysisLoading
    /\ aiAnalysisLoading' = TRUE
    /\ lastOp' = NoOp
    /\ UNCHANGED <<ingredients, recipes, activeView, uploads, view, activeRecipe,
                   aiLoading, aiRequest, ops, probe, aiOrphans, aiAnalysis>>
    /\ IngredientManagerUnchanged

\* handleAnalyzeProfit from the await on
AnalyzeProfitReturned ==
    /\ RecipesMounted
    /\ aiAnalysisLoading
    /\ \E outcome \in AnalysisOutcomes :
          LET analysis == analyzeProfitability(outcome)
          IN  /\ aiAnalysis' = IF analysis # "" THEN analysis ELSE "No analysis returned."
              /\ lastOp' = [op |-> "analyzeDone", failed |-> ~outcome.ok]
    /\ aiAnalysisLoading' = FALSE
    /\ UNCHANGED <<ingredients, recipes, activeView, uploads, view, activeRecipe,
                   aiLoading, aiRequest, ops, probe, aiOrphans>>
    /\ IngredientManagerUnchanged

\* the Clear link under the analysis: setAiAnalysis('')
ClearAnalysis ==
    /\ EditView
    /\ aiAnalysis # ""
    /\ aiAnalysis' = ""
    /\ lastOp' = NoOp
    /\ UNCHANGED <<ingredients, recipes, activeView, uploads, view, activeRecipe,
                   aiLoading, aiRequest, ops, probe, aiOrphans, aiAnalysisLoading>>
    /\ IngredientManagerUnchanged

NextAsync ==
    \/ setActiveView
    \/ handleCreateNew \/ BackToList \/ RecipeNameChange \/ addIngredientToRecipe
    \/ GenerateAIStart \/ GenerateAIResolved(AppDrafts) \/ GenerateAIRejected
    \/ AnalyzeProfitStart \/ AnalyzeProfitReturned \/ ClearAnalysis

\* the service calls settle: a pending generateRecipeDraft resolves or
\* rejects, a pending analyzeProfitability returns
SpecAsync ==
    /\ Init
    /\ [][NextAsync]_vars
    /\ WF_vars(GenerateAIResolved(AppDrafts) \/ GenerateAIRejected)
    /\ WF_vars(AnalyzeProfitReturned)

\* C27: a loading flag that has been set is cleared again: aiLoading when
\* the draft request has succeeded or failed, aiAnalysisLoading when the
\* analysis call has returned, be it with the fallback text of a failure
C27_LoadingCleared ==
    /\ aiLoading ~> ~aiLoading
    /\ aiAnalysisLoading ~> ~aiAnalysisLoading

\* an analysis whose service call failed has returned the fallback text and
\* the flag is cleared
C27_Witness ==
    /\ lastOp.op = "analyzeDone"
    /\ lastOp.failed
    /\ aiAnalysis = "Could not generate analysis at this time."
    /\ ~aiAnalysisLoading

(*** handleUpdateIngredient ***)

\* the seeded catalog and its prefixes
UpdateCatalogs == {SubSeq(SeedIngredients, 1, n) : n \in 0..Len(SeedIngredients)}

\* ingredients handed to the update: the first seed's values or new ones,
\* under the id of a seed or under an id no catalog entry has
UpdateIngredients ==
    {Spread(body, [id |-> id]) :
        body \in {SeedIngredients[1],
                  [name |-> Salt, category |-> Others, purchaseUnit |-> PIECE,
                   purchaseCost |-> Num(3000), purchaseQuantity |-> Num(2),
                   costPerBaseUnit |-> Num(1500)]},
        id \in CatalogIds(SeedIngredients) \cup {UUID(1)}}

UpdateInputs ==
    {[ingredients |-> c, updatedIng |-> i] : c \in UpdateCatalogs, i \in UpdateIngredients}

ApplyUpdate ==
    /\ probe.fn = "handleUpdateIngredient"
    /\ Returns(handleUpdateIngredient(probe.args.ingredients, probe.args.updatedIng))

SpecUpdate == InitApplying("handleUpdateIngredient", UpdateInputs) /\ [][ApplyUpdate]_vars

\* C28: after an update the catalog has the length and the order of ids it
\* had, every entry with the ingredient's id is the ingredient, every other
\* entry is as it was, and a catalog without an entry of that id is unchanged
C28_UpdateReplacesInPlace ==
    Returned("handleUpdateIngredient") =>
      LET before == probe.args.ingredients
          ing == probe.args.updatedIng
          after == probe.ret
      IN  /\ Len(after) = Len(before)
          /\ \A k \in 1..Len(before) :
                /\ after[k].id = before[k].id
                /\ before[k].id = ing.id => after[k] = ing
                /\ before[k].id # ing.id => after[k] = before[k]
          /\ ing.id \notin CatalogIds(before) => after = before

\* the third entry of the seeded catalog has been replaced by new values
\* under its id
C28_Witness ==
    /\ Returned("handleUpdateIngredient")
    /\ probe.args.ingredients = SeedIngredients
    /\ probe.args.updatedIng.id = 3
    /\ probe.args.updatedIng.name = Salt
    /\ probe.ret[3] = probe.args.updatedIng
    /\ probe.ret[2] = SeedIngredients[2]

(*** the delete guard and the saved recipes ***)

\* stored recipes of which one or two reference the first seed ingredient
GuardedRecipes ==
    {<<StoredSoup>>, <<StoredSoup, StoredOmelette>>, <<StoredBread, StoredSoup>>}

NextGuard ==
    \/ setActiveView
    \/ onDeleteIngredient
    \/ handleEdit \/ BackToList \/ removeRecipeIngredient
    \/ SaveRecipe \/ onDeleteRecipe

SpecGuard == InitWith(GuardedRecipes) /\ [][NextGuard]_vars

\* C29: whether a delete is refused depends on the saved recipes as they are
\* at that moment: while a saved recipe references the ingredient the
\* catalog stays as it is, and once none does (each such recipe deleted or
\* saved again without the line) the delete removes the entry of that id and
\* no other
C29_GuardFollowsRecipes ==
    [][lastOp'.op = "onDeleteIngredient" =>
         IF lastOp'.id \in ReferencedIds
         THEN ingredients' = ingredients
         ELSE /\ CatalogIds(ingredients') = CatalogIds(ingredients) \ {lastOp'.id}
              /\ Len(ingredients') = Len(ingredients) - 1
              /\ \A k \in 1..Len(ingredients') :
                    \E j \in 1..Len(ingredients) : ingredients'[k] = ingredients[j]]_vars

\* the stored recipe referencing the first seed ingredient has been saved
\* again without that line, and the ingredient has then been deleted
C29_Witness ==
    /\ lastOp.op = "onDeleteIngredient"
    /\ lastOp.id = 1
    /\ recipes = <<Spread(StoredSoup, [ingredients |-> <<>>])>>
    /\ ingredients = Tail(SeedIngredients)

(*** Dashboard: food-cost percentage ***)

\* C30: for a recipe without an actual price, with servings > 0, a target
\* percentage > 0 and a positive ingredient cost, the dashboard's food-cost
\* percentage is the recipe's target percentage, and the recipe is not
\* counted as a cost alert
C30_FoodCostIsTarget ==
    Returned("stats") =>
      LET recs == probe.args.recipes
          priced == {k \in 1..Len(recs) :
                        /\ "actualPrice" \notin DOMAIN probe.ret.costs[k]
                        /\ NumGt0(recs[k].servings)
                        /\ NumGt0(recs[k].targetFoodCostPercentage)
                        /\ NumGt0(probe.ret.costs[k].totalIngredientCost)}
      IN  /\ \A k \in priced :
                probe.ret.fcPercent[k] = recs[k].targetFoodCostPercentage
          /\ priced = 1..Len(recs) => probe.ret.warnings = 0

=============================================================================
